---- MODULE Spec2Model ----
(***************************************************************************)
(* Scoring engine of x-aiexpert-social-map: the graph builder, edge        *)
(* weighting and normaliser of scripts/quanzhong_model.py                  *)
(* (compute_quanzhong_metrics) and of                                      *)
(* association-centrality-skill/scripts/build_circle_layers.py             *)
(* (build_layers).                                                         *)
(*                                                                         *)
(* A run of either function is a sequence of steps: one step per iteration *)
(* of the node loop and of the link loop (the record of the iteration is   *)
(* the step's input), then one step for the rest of the function.  The     *)
(* pure helpers are also called on their own, on arguments drawn from      *)
(* bounded sets (the specifications named after them).                     *)
(*                                                                         *)
(* Python values are tagged records: None, str (a sequence of one-character*)
(* strings), int, and dict.  Python floats are modelled as exact rationals *)
(* <<numerator, denominator>> in lowest terms.                             *)
(***************************************************************************)
EXTENDS Integers, Sequences, FiniteSets, TLC

VARIABLES
    prog,               \* which function runs: "quanzhong" or "layers"
    pc,                 \* the block of the function the run is in
    nodes_seen,         \* node records consumed by the running node loop
    links_seen,         \* link records consumed by the running link loop
    node_ids,           \* list of identity keys, in input order
    node_map,           \* identity key -> node record
    out_map,            \* defaultdict(set): key -> set of targets
    in_map,             \* defaultdict(set): key -> set of sources
    link_pairs,         \* compute_quanzhong_metrics: list of accepted (s, t)
    token_map,          \* compute_quanzhong_metrics: key -> token set
    reciprocal_count,   \* key -> int
    cross_follow_ratio, \* key -> rational (cross_ratio in build_layers)
    weighted_degree,    \* key -> rational
    weighted_links,     \* compute_quanzhong_metrics: list of link records
    rows,               \* build_layers: list of output rows
    fn,                 \* a helper called on its own: its name, or "none"
    args,               \* the arguments of that call
    result              \* the value the call returned

runvars == <<prog, pc, nodes_seen, links_seen, node_ids, node_map, out_map, in_map,
             link_pairs, token_map, reciprocal_count, cross_follow_ratio,
             weighted_degree, weighted_links, rows>>

callvars == <<fn, args, result>>

vars == <<runvars, callvars>>

---------------------------------------------------------------------------
(* Bounds of the model.                                                    *)

MaxNodes == 3

MaxLinks == 3

\* the longest list a helper is called on
MaxLen == 3

\* the number of tokens the sets given to _jaccard are drawn from
MaxTokens == 3

\* the largest "iterations" argument _pagerank / pagerank is called with
MaxIter == 2

\* the decimals to which a square root is computed
SqrtDigits == 2

\* the largest number of rows build_layers() ranks and layers on its own
MaxRows == 5

---------------------------------------------------------------------------
(* Python values.                                                          *)

None == [t |-> "none"]

S(chars) == [t |-> "str", s |-> chars]

I(n) == [t |-> "int", n |-> n]

IsDict(v) == v.t = "dict"

\* Python truthiness of a value: None, "", 0 and the empty dict are falsy.
Truthy(v) ==
    CASE v.t = "none" -> FALSE
      [] v.t = "str"  -> v.s # <<>>
      [] v.t = "int"  -> v.n # 0
      [] v.t = "missing" -> FALSE
      [] v.t = "dict" -> \E k \in DOMAIN v \ {"t"} : v[k].t # "missing"
      [] OTHER        -> TRUE

Digit(n) == CASE n = 0 -> "0" [] n = 1 -> "1" [] n = 2 -> "2" [] n = 3 -> "3"
              [] n = 4 -> "4" [] n = 5 -> "5" [] n = 6 -> "6" [] n = 7 -> "7"
              [] n = 8 -> "8" [] OTHER -> "9"

\* str(v) for the values the model uses (ints are single digits).
Str(v) ==
    CASE v.t = "str"  -> v.s
      [] v.t = "int"  -> <<Digit(v.n)>>
      [] v.t = "none" -> <<"N", "o", "n", "e">>
      [] OTHER        -> <<"{", "}">>

IsSpace(c) == c = " "

RECURSIVE LStrip(_)
LStrip(s) == IF s # <<>> /\ IsSpace(Head(s)) THEN LStrip(Tail(s)) ELSE s

RECURSIVE RStrip(_)
RStrip(s) == IF s # <<>> /\ IsSpace(s[Len(s)]) THEN RStrip(SubSeq(s, 1, Len(s) - 1)) ELSE s

\* str.strip()
Strip(s) == RStrip(LStrip(s))

\* a or b
Or(a, b) == IF Truthy(a) THEN a ELSE b

\* A key a dict does not hold.
Missing == [t |-> "missing"]

\* d.get(k) and d.get(k, default) on a field of a record
FieldGet(field) == IF field.t = "missing" THEN None ELSE field

FieldGetOr(field, default) == IF field.t = "missing" THEN default ELSE field

\* m.get(k, default) on a mapping
Get(m, k, default) == IF k \in DOMAIN m THEN m[k] ELSE default

\* m[k] = v
Put(m, k, v) == [x \in DOMAIN m \cup {k} |-> IF x = k THEN v ELSE m[x]]

\* the empty dict
Empty == <<>>

Range(seq) == {seq[i] : i \in 1..Len(seq)}

---------------------------------------------------------------------------
(* endpoint().                                                             *)

endpoint(value) ==
    IF IsDict(value)
    THEN IF Truthy(FieldGet(value.id)) THEN Strip(Str(value.id))
         ELSE IF Truthy(FieldGet(value.handle)) THEN Strip(Str(value.handle))
         ELSE IF Truthy(FieldGet(value.name)) THEN Strip(Str(value.name))
         ELSE <<>>
    ELSE Strip(Str(Or(value, S(<<>>))))

bl_endpoint(value) ==
    IF IsDict(value)
    THEN IF Truthy(FieldGet(value.id)) THEN Strip(Str(value.id))
         ELSE IF Truthy(FieldGet(value.handle)) THEN Strip(Str(value.handle))
         ELSE IF Truthy(FieldGet(value.name)) THEN Strip(Str(value.name))
         ELSE <<>>
    ELSE Strip(Str(Or(value, S(<<>>))))

---------------------------------------------------------------------------
(* Exact rationals <<n, d>>, d > 0, in lowest terms, for Python floats.    *)

RECURSIVE GCD(_, _)
GCD(a, b) ==
    IF b = 0 THEN a
    ELSE LET r1 == a % b
         IN  IF r1 = 0 THEN b
             ELSE LET r2 == b % r1
                  IN  IF r2 = 0 THEN r1
                      ELSE LET r3 == r1 % r2
                           IN  IF r3 = 0 THEN r2 ELSE GCD(r3, r2 % r3)

Abs(n) == IF n < 0 THEN -n ELSE n

Frac(n, d) ==
    LET g == GCD(Abs(n), Abs(d))
        sg == IF d < 0 THEN -1 ELSE 1
    IN  <<(sg * n) \div g, (sg * d) \div g>>

Zero == Frac(0, 1)

One == Frac(1, 1)

\* sums and comparisons go through the least common denominator, which keeps
\* the intermediate integers small
RAdd(a, b) ==
    LET g == GCD(a[2], b[2])
    IN  Frac(a[1] * (b[2] \div g) + b[1] * (a[2] \div g), (a[2] \div g) * b[2])

RSub(a, b) ==
    LET g == GCD(a[2], b[2])
    IN  Frac(a[1] * (b[2] \div g) - b[1] * (a[2] \div g), (a[2] \div g) * b[2])

\* products and quotients cancel common factors before they multiply
RMul(a, b) ==
    LET g1 == GCD(Abs(a[1]), b[2])
        g2 == GCD(Abs(b[1]), a[2])
    IN  Frac((a[1] \div g1) * (b[1] \div g2), (a[2] \div g2) * (b[2] \div g1))

RDiv(a, b) ==
    LET g1 == GCD(Abs(a[1]), Abs(b[1]))
        g2 == GCD(a[2], b[2])
    IN  IF g1 = 0 THEN Frac(0, 1)
        ELSE Frac((a[1] \div g1) * (b[2] \div g2), (a[2] \div g2) * (b[1] \div g1))

RLe(a, b) ==
    LET g == GCD(a[2], b[2])
    IN  a[1] * (b[2] \div g) <= b[1] * (a[2] \div g)

RLt(a, b) ==
    LET g == GCD(a[2], b[2])
    IN  a[1] * (b[2] \div g) < b[1] * (a[2] \div g)

RMax(a, b) == IF RLt(a, b) THEN b ELSE a

RMin(a, b) == IF RLt(b, a) THEN b ELSE a

\* c1/100 * x + c2/100 * y, the coefficients given in hundredths
WSum2(c1, x, c2, y) ==
    Frac(c1 * x[1] * y[2] + c2 * y[1] * x[2], 100 * x[2] * y[2])

\* c1/100 * x + c2/100 * y + c3/100 * z
WSum3(c1, x, c2, y, c3, z) ==
    Frac(c1 * x[1] * y[2] * z[2] + c2 * y[1] * x[2] * z[2] + c3 * z[1] * x[2] * y[2],
         100 * x[2] * y[2] * z[2])

RECURSIVE Pow10(_)
Pow10(k) == IF k = 0 THEN 1 ELSE 10 * Pow10(k - 1)

\* The first k decimal digits of r/d (0 <= r < d) as an integer, and the
\* remainder left after them: <<digits, remainder>>.
RECURSIVE Decimals(_, _, _, _)
Decimals(r, d, k, acc) ==
    IF k = 0 THEN <<acc, r>>
    ELSE Decimals((r * 10) % d, d, k - 1, acc * 10 + ((r * 10) \div d))

\* round(x, k) for x >= 0: nearest multiple of 10^-k, ties to even.
Round(x, k) ==
    LET ip == x[1] \div x[2]
        dr == Decimals(x[1] % x[2], x[2], k, 0)
        up == \/ 2 * dr[2] > x[2]
              \/ 2 * dr[2] = x[2] /\ dr[1] % 2 = 1
    IN  IF x[2] = 1 THEN x
        ELSE Frac(ip * Pow10(k) + dr[1] + (IF up THEN 1 ELSE 0), Pow10(k))

---------------------------------------------------------------------------
(* _jaccard(), _minmax() / minmax().                                       *)

\* len(a & b) / len(a): the intersection over the first set, not the union
_jaccard_over_first(a, b) ==
    IF a = {} /\ b = {} THEN Zero
    ELSE IF a = {} THEN Zero
    ELSE Frac(Cardinality(a \cap b), Cardinality(a))

_jaccard(a, b) ==
    IF a = {} /\ b = {} THEN Zero
    ELSE IF a \cup b = {} THEN Zero
    ELSE Frac(Cardinality(a \cap b), Cardinality(a \cup b))

\* min(values) and max(values) of a non-empty list
SeqMin(values) ==
    CHOOSE x \in Range(values) : \A y \in Range(values) : RLe(x, y)

SeqMax(values) ==
    CHOOSE x \in Range(values) : \A y \in Range(values) : RLe(y, x)

\* a constant list normalised to ones instead of zeros
_minmax_ones(values) ==
    IF values = <<>> THEN <<>>
    ELSE LET lo == SeqMin(values)
             hi == SeqMax(values)
         IN  IF RLe(hi, lo) THEN [i \in 1..Len(values) |-> One]
             ELSE [i \in 1..Len(values) |-> RDiv(RSub(values[i], lo), RSub(hi, lo))]

\* v / (hi - lo): the minimum is not subtracted
_minmax_noshift(values) ==
    IF values = <<>> THEN <<>>
    ELSE LET lo == SeqMin(values)
             hi == SeqMax(values)
         IN  IF RLe(hi, lo) THEN [i \in 1..Len(values) |-> Zero]
             ELSE [i \in 1..Len(values) |-> RDiv(values[i], RSub(hi, lo))]

_minmax(values) ==
    IF values = <<>> THEN <<>>
    ELSE LET lo == SeqMin(values)
             hi == SeqMax(values)
         IN  IF RLe(hi, lo) THEN [i \in 1..Len(values) |-> Zero]
             ELSE [i \in 1..Len(values) |-> RDiv(RSub(values[i], lo), RSub(hi, lo))]

minmax(values) ==
    IF values = <<>> THEN <<>>
    ELSE LET lo == SeqMin(values)
             hi == SeqMax(values)
         IN  IF RLe(hi, lo) THEN [i \in 1..Len(values) |-> Zero]
             ELSE [i \in 1..Len(values) |-> RDiv(RSub(values[i], lo), RSub(hi, lo))]

---------------------------------------------------------------------------
(* _tokenize().                                                            *)

Lower(c) == CASE c = "A" -> "a" [] c = "B" -> "b" [] c = "C" -> "c" [] OTHER -> c

\* [a-z0-9_] over the model's alphabet (which holds no CJK character)
IsWordChar(c) == c \in {"a", "b", "c", "0", "1", "2", "3", "4", "5", "6", "7", "8", "9", "_"}

\* " ".join(items)
RECURSIVE Join(_)
Join(items) ==
    IF items = <<>> THEN <<>>
    ELSE IF Len(items) = 1 THEN items[1]
    ELSE items[1] \o <<" ">> \o Join(Tail(items))

\* re.findall(r"[a-z0-9_]+", blob): the maximal runs of word characters
RECURSIVE FindAll(_, _)
FindAll(blob, run) ==
    IF blob = <<>> THEN (IF run = <<>> THEN {} ELSE {run})
    ELSE IF IsWordChar(Head(blob)) THEN FindAll(Tail(blob), Append(run, Head(blob)))
    ELSE (IF run = <<>> THEN {} ELSE {run}) \cup FindAll(Tail(blob), <<>>)

_tokenize(items) ==
    LET strs == [i \in 1..Len(items) |-> Str(Or(items[i], S(<<>>)))]
        joined == Join(strs)
        blob == [i \in 1..Len(joined) |-> Lower(joined[i])]
    IN  {p \in FindAll(blob, <<>>) : Len(p) >= 2}

---------------------------------------------------------------------------
(* The records a run may be given.                                         *)

Node(id, handle, name, bio) ==
    [t |-> "dict", id |-> id, handle |-> handle, name |-> name, bio |-> bio,
     group |-> Missing, role |-> Missing, associated |-> Missing, bioTags |-> Missing]

Ref(id, handle, name) == [t |-> "dict", id |-> id, handle |-> handle, name |-> name]

Link(source, target, weight) ==
    [t |-> "dict", source |-> source, target |-> target, weight |-> weight]

NodePool ==
    { S(<<"a">>),                                                  \* not a dict
      Node(S(<<"a">>), S(<<"a">>), Missing, Missing),
      Node(Missing, S(<<"a", " ">>), None, S(<<"A", "B", " ", "b", "a">>)),
      Node(S(<<" ", "b", " ">>), S(<<"B">>), S(<<"a", "b">>), Missing),
      Node(S(<<>>), I(7), S(<<"b", "a">>), Missing),
      Node(S(<<" ">>), S(<<"a">>), Missing, Missing),              \* blank id
      Node(None, Missing, S(<<"a", "b">>), Missing) }              \* no identity

\* endpoints that name a node of NodePool, by the forms an endpoint takes
SourceEndpoints ==
    { S(<<" ", "b">>),
      Ref(S(<<"a">>), Missing, Missing) }

TargetEndpoints ==
    { S(<<"b">>),
      Ref(None, S(<<"a", " ">>), Missing),
      Ref(Missing, None, I(7)) }

OtherEndpoints ==
    { Ref(S(<<" ">>), S(<<"b">>), Missing),                        \* blank id
      S(<<"z">>),                                                  \* no such node
      I(0),
      Missing }

EndpointPool == SourceEndpoints \cup TargetEndpoints \cup OtherEndpoints

EndpointPairs ==
    (SourceEndpoints \X TargetEndpoints)
        \cup (OtherEndpoints \X {Ref(S(<<"a">>), Missing, Missing)})
        \cup ({Ref(S(<<"a">>), Missing, Missing)} \X OtherEndpoints)

WeightPool == { Missing, S(<<"x">>), S(<<"n", "a", "n">>), I(0), I(-1), I(2) }

bl_LinkPool ==
    { S(<<"a">>) }
        \cup { Link(s, t, w) : s \in SourceEndpoints, t \in TargetEndpoints, w \in WeightPool }
        \cup { Link(p[1], p[2], Missing) : p \in EndpointPairs }

cqm_LinkPool ==
    { S(<<"a">>) } \cup { Link(p[1], p[2], Missing) : p \in EndpointPairs }

---------------------------------------------------------------------------
(* compute_quanzhong_metrics().                                            *)

\* the identity key of a node record
cqm_NodeKey(node) ==
    Strip(Str(Or(Or(FieldGet(node.id), FieldGet(node.handle)), S(<<>>))))

\* one iteration of "for node in nodes"
cqm_NodeLoop(node) ==
    /\ prog = "quanzhong" /\ pc = "nodes" /\ nodes_seen < MaxNodes
    /\ nodes_seen' = nodes_seen + 1
    /\ IF ~IsDict(node)
       THEN UNCHANGED <<node_ids, node_map>>
       ELSE LET nid == cqm_NodeKey(node)
            IN  IF nid = <<>>
                THEN UNCHANGED <<node_ids, node_map>>
                ELSE /\ node_ids' = Append(node_ids, nid)
                     /\ node_map' = Put(node_map, nid, node)
    /\ UNCHANGED callvars
    /\ UNCHANGED <<prog, pc, links_seen, out_map, in_map, link_pairs, token_map,
                   reciprocal_count, cross_follow_ratio, weighted_degree,
                   weighted_links, rows>>

\* the node list is exhausted
cqm_NodesDone ==
    /\ prog = "quanzhong" /\ pc = "nodes"
    /\ pc' = "links"
    /\ nodes_seen' = 0
    /\ out_map' = Empty /\ in_map' = Empty /\ link_pairs' = <<>>
    /\ UNCHANGED callvars
    /\ UNCHANGED <<prog, links_seen, node_ids, node_map, token_map,
                   reciprocal_count, cross_follow_ratio, weighted_degree,
                   weighted_links, rows>>

\* the tests without "s == t": self-loops get through
cqm_Rejects_selfloop(s, t, nmap) ==
    \/ s = <<>> \/ t = <<>>
    \/ s \notin DOMAIN nmap \/ t \notin DOMAIN nmap

\* the two tests that make the link loop skip a resolved pair
cqm_Rejects(s, t, nmap) ==
    \/ s = <<>> \/ t = <<>> \/ s = t
    \/ s \notin DOMAIN nmap \/ t \notin DOMAIN nmap

\* out_map[s].add(t)
cqm_OutMapAdd(om, s, t) == Put(om, s, Get(om, s, {}) \cup {t})

\* in_map[s].add(t): the reverse index filed under the wrong endpoint
cqm_InMapAdd_swapped(im, s, t) == Put(im, s, Get(im, s, {}) \cup {t})

\* in_map[t].add(s)
cqm_InMapAdd(im, s, t) == Put(im, t, Get(im, t, {}) \cup {s})

\* one iteration of "for link in links"
cqm_LinkLoop(link) ==
    /\ prog = "quanzhong" /\ pc = "links" /\ links_seen < MaxLinks
    /\ links_seen' = links_seen + 1
    /\ IF ~IsDict(link)
       THEN UNCHANGED <<out_map, in_map, link_pairs>>
       ELSE LET s == endpoint(FieldGet(link.source))
                t == endpoint(FieldGet(link.target))
            IN  IF cqm_Rejects(s, t, node_map)
                THEN UNCHANGED <<out_map, in_map, link_pairs>>
                ELSE /\ out_map' = cqm_OutMapAdd(out_map, s, t)
                     /\ in_map' = cqm_InMapAdd(in_map, s, t)
                     /\ link_pairs' = Append(link_pairs, <<s, t>>)
    /\ UNCHANGED callvars
    /\ UNCHANGED <<prog, pc, nodes_seen, node_ids, node_map, token_map,
                   reciprocal_count, cross_follow_ratio, weighted_degree,
                   weighted_links, rows>>

\* the token loop over node_ids: token_map
cqm_TokenMap(ids, nmap) ==
    [nid \in Range(ids) |->
        LET node == nmap[nid]
            tags == FieldGet(node.bioTags)
            tags_blob == S(Str(Or(tags, S(<<>>))))
        IN  _tokenize(<<FieldGet(node.name), FieldGet(node.handle),
                        FieldGet(node.group), FieldGet(node.role),
                        FieldGet(node.associated), FieldGet(node.bio),
                        tags_blob>>)]

\* reciprocal_count after "for s, t in link_pairs: if s in out_map.get(t, set())"
RECURSIVE cqm_CountReciprocal(_, _, _)
cqm_CountReciprocal(pairs, om, count) ==
    IF pairs = <<>> THEN count
    ELSE LET s == Head(pairs)[1]
             t == Head(pairs)[2]
         IN  cqm_CountReciprocal(Tail(pairs), om,
                 IF s \in Get(om, t, {}) THEN [count EXCEPT ![s] = @ + 1] ELSE count)

Max(a, b) == IF a >= b THEN a ELSE b

\* cross_follow_ratio of every node
cqm_CrossFollowRatio(ids, om, rcount) ==
    [nid \in Range(ids) |->
        LET out_n == Max(1, Cardinality(Get(om, nid, {})))
        IN  Frac(rcount[nid], out_n)]

\* min(1.0, edge_weight): the floor of 0.02 left out
cqm_ClampWeight_nofloor(x) == RMin(One, x)

\* max(0.02, min(1.0, edge_weight))
cqm_ClampWeight(x) == RMax(Frac(2, 100), RMin(One, x))

\* the edge weight with reciprocal read off the target's own links: whether t
\* follows itself, which no accepted link allows
cqm_EdgeWeight_forward(s, t, om, im, tmap) ==
    LET reciprocal == IF t \in Get(om, t, {}) THEN One ELSE Zero
        shared_out == _jaccard(Get(om, s, {}), Get(om, t, {}))
        shared_in == _jaccard(Get(im, s, {}), Get(im, t, {}))
        semantic_sim == _jaccard(Get(tmap, s, {}), Get(tmap, t, {}))
        structural == WSum3(50, reciprocal, 25, shared_out, 25, shared_in)
        blend == WSum2(65, structural, 35, semantic_sim)
    IN  [reciprocal |-> reciprocal, structural |-> structural,
         semantic_sim |-> semantic_sim,
         edge_weight |-> cqm_ClampWeight(blend)]

\* the body of "for s, t in link_pairs" up to edge_weight: the values of the
\* locals reciprocal, structural, semantic_sim and edge_weight
cqm_EdgeWeight(s, t, om, im, tmap) ==
    LET reciprocal == IF s \in Get(om, t, {}) THEN One ELSE Zero
        shared_out == _jaccard(Get(om, s, {}), Get(om, t, {}))
        shared_in == _jaccard(Get(im, s, {}), Get(im, t, {}))
        semantic_sim == _jaccard(Get(tmap, s, {}), Get(tmap, t, {}))
        structural == WSum3(50, reciprocal, 25, shared_out, 25, shared_in)
        blend == WSum2(65, structural, 35, semantic_sim)
    IN  [reciprocal |-> reciprocal, structural |-> structural,
         semantic_sim |-> semantic_sim,
         edge_weight |-> cqm_ClampWeight(blend)]

\* the entry appended to weighted_links
cqm_WeightedLink(s, t, e) ==
    [source |-> s, target |-> t,
     weight |-> Round(e.edge_weight, 6),
     structural |-> Round(e.structural, 6),
     semantic_similarity |-> Round(e.semantic_sim, 6),
     reciprocal |-> e.reciprocal[1] \div e.reciprocal[2]]

\* "for s, t in link_pairs" that credits the source of a link only
RECURSIVE cqm_WeightLoop_directed(_, _, _, _, _)
cqm_WeightLoop_directed(pairs, om, im, tmap, acc) ==
    IF pairs = <<>> THEN acc
    ELSE LET s == Head(pairs)[1]
             t == Head(pairs)[2]
             e == cqm_EdgeWeight(s, t, om, im, tmap)
         IN  cqm_WeightLoop_directed(Tail(pairs), om, im, tmap,
                 [weighted_links |-> Append(acc.weighted_links, cqm_WeightedLink(s, t, e)),
                  weighted_degree |-> [acc.weighted_degree EXCEPT ![s] = RAdd(@, e.edge_weight)]])

\* "for s, t in link_pairs": weighted_links and weighted_degree after the loop
RECURSIVE cqm_WeightLoop(_, _, _, _, _)
cqm_WeightLoop(pairs, om, im, tmap, acc) ==
    IF pairs = <<>> THEN acc
    ELSE LET s == Head(pairs)[1]
             t == Head(pairs)[2]
             e == cqm_EdgeWeight(s, t, om, im, tmap)
             wd1 == [acc.weighted_degree EXCEPT ![s] = RAdd(@, e.edge_weight)]
         IN  cqm_WeightLoop(Tail(pairs), om, im, tmap,
                 [weighted_links |-> Append(acc.weighted_links, cqm_WeightedLink(s, t, e)),
                  weighted_degree |-> [wd1 EXCEPT ![t] = RAdd(@, e.edge_weight)]])

\* the link list is exhausted: the blocks after the link loop that build
\* token_map, reciprocal_count, cross_follow_ratio, weighted_links and
\* weighted_degree
cqm_Finish ==
    /\ prog = "quanzhong" /\ pc = "links"
    /\ pc' = "done"
    /\ links_seen' = 0
    /\ token_map' = cqm_TokenMap(node_ids, node_map)
    /\ reciprocal_count' =
           cqm_CountReciprocal(link_pairs, out_map, [nid \in Range(node_ids) |-> 0])
    /\ cross_follow_ratio' = cqm_CrossFollowRatio(node_ids, out_map, reciprocal_count')
    /\ LET w == cqm_WeightLoop(link_pairs, out_map, in_map, token_map',
                               [weighted_links |-> <<>>,
                                weighted_degree |-> [nid \in Range(node_ids) |-> Zero]])
       IN  /\ weighted_links' = w.weighted_links
           /\ weighted_degree' = w.weighted_degree
    /\ UNCHANGED callvars
    /\ UNCHANGED <<prog, nodes_seen, node_ids, node_map, out_map, in_map,
                   link_pairs, rows>>

---------------------------------------------------------------------------
(* build_layers().                                                         *)

IsDigit(c) == c \in {"0", "1", "2", "3", "4", "5", "6", "7", "8", "9"}

DigitValue(c) == CHOOSE n \in 0..9 : Digit(n) = c

RECURSIVE ParseDigits(_, _)
ParseDigits(s, acc) ==
    IF s = <<>> THEN acc ELSE ParseDigits(Tail(s), 10 * acc + DigitValue(Head(s)))

\* the float that is not a number: it is neither below, equal to nor above any
\* float, and every sum it is part of is nan
NaN == <<0, 0>>

IsNaN(x) == x[2] = 0

\* a < b, a <= b and a == b on floats
FLt(a, b) == ~IsNaN(a) /\ ~IsNaN(b) /\ RLt(a, b)

FLe(a, b) == ~IsNaN(a) /\ ~IsNaN(b) /\ RLe(a, b)

FEq(a, b) == ~IsNaN(a) /\ ~IsNaN(b) /\ a = b

\* a + b on floats
FAdd(a, b) == IF IsNaN(a) \/ IsNaN(b) THEN NaN ELSE RAdd(a, b)

\* round(x, k) on floats
FRound(x, k) == IF IsNaN(x) THEN NaN ELSE Round(x, k)

\* float(w): <<TRUE, value>>, or <<FALSE, 0>> where float() raises
Float(w) ==
    CASE w.t = "float" -> <<TRUE, w.x>>
      [] w.t = "int"   -> <<TRUE, Frac(w.n, 1)>>
      [] w.t = "str"   ->
            LET text == Strip(w.s)
            IN  IF text # <<>> /\ \A i \in 1..Len(text) : IsDigit(text[i])
                THEN <<TRUE, Frac(ParseDigits(text, 0), 1)>>
                ELSE IF text = <<"n", "a", "n">>
                THEN <<TRUE, NaN>>
                ELSE <<FALSE, Zero>>
      [] OTHER         -> <<FALSE, Zero>>

\* the weight of a raw link: lk.get("weight", 1.0), float(), the w <= 0 test
bl_LinkWeight(lk) ==
    LET w0 == FieldGetOr(lk.weight, [t |-> "float", x |-> One])
        f == Float(w0)
        w1 == IF f[1] THEN f[2] ELSE One
    IN  IF ~IsNaN(w1) /\ RLe(w1, Zero) THEN One ELSE w1

\* the identity key of a node record
bl_NodeKey(n) ==
    Strip(Str(Or(Or(FieldGet(n.id), FieldGet(n.handle)), S(<<>>))))

\* one iteration of "for n in nodes"
bl_NodeLoop(n) ==
    /\ prog = "layers" /\ pc = "nodes" /\ nodes_seen < MaxNodes
    /\ nodes_seen' = nodes_seen + 1
    /\ IF ~IsDict(n)
       THEN UNCHANGED <<node_ids, node_map>>
       ELSE LET nid == bl_NodeKey(n)
            IN  IF nid = <<>>
                THEN UNCHANGED <<node_ids, node_map>>
                ELSE /\ node_ids' = Append(node_ids, nid)
                     /\ node_map' = Put(node_map, nid, n)
    /\ UNCHANGED callvars
    /\ UNCHANGED <<prog, pc, links_seen, out_map, in_map, link_pairs, token_map,
                   reciprocal_count, cross_follow_ratio, weighted_degree,
                   weighted_links, rows>>

\* the node list is exhausted
bl_NodesDone ==
    /\ prog = "layers" /\ pc = "nodes"
    /\ pc' = "links"
    /\ nodes_seen' = 0
    /\ out_map' = Empty /\ in_map' = Empty
    /\ weighted_degree' = [nid \in Range(node_ids) |-> Zero]
    /\ reciprocal_count' = [nid \in Range(node_ids) |-> 0]
    /\ UNCHANGED callvars
    /\ UNCHANGED <<prog, links_seen, node_ids, node_map, link_pairs, token_map,
                   cross_follow_ratio, weighted_links, rows>>

\* the two tests that make the link loop skip a resolved pair
bl_Rejects(s, t, nmap) ==
    \/ s = <<>> \/ t = <<>> \/ s = t
    \/ s \notin DOMAIN nmap \/ t \notin DOMAIN nmap

\* one iteration of "for lk in links"
bl_LinkLoop(lk) ==
    /\ prog = "layers" /\ pc = "links" /\ links_seen < MaxLinks
    /\ links_seen' = links_seen + 1
    /\ IF ~IsDict(lk)
       THEN UNCHANGED <<out_map, in_map, weighted_degree>>
       ELSE LET s == bl_endpoint(FieldGet(lk.source))
                t == bl_endpoint(FieldGet(lk.target))
                w == bl_LinkWeight(lk)
            IN  IF bl_Rejects(s, t, node_map)
                THEN UNCHANGED <<out_map, in_map, weighted_degree>>
                ELSE /\ out_map' = Put(out_map, s, Get(out_map, s, {}) \cup {t})
                     /\ in_map' = Put(in_map, t, Get(in_map, t, {}) \cup {s})
                     /\ weighted_degree' =
                            [weighted_degree EXCEPT ![s] = FAdd(@, w), ![t] = FAdd(@, w)]
    /\ UNCHANGED callvars
    /\ UNCHANGED <<prog, pc, nodes_seen, node_ids, node_map, link_pairs, token_map,
                   reciprocal_count, cross_follow_ratio, weighted_links, rows>>

\* reciprocal_count after "for s in node_ids: for t in out_map.get(s, set())"
RECURSIVE bl_CountReciprocal(_, _, _)
bl_CountReciprocal(ids, om, count) ==
    IF ids = <<>> THEN count
    ELSE LET s == Head(ids)
             hits == Cardinality({t \in Get(om, s, {}) : s \in Get(om, t, {})})
         IN  bl_CountReciprocal(Tail(ids), om, [count EXCEPT ![s] = @ + hits])

\* cross_ratio of every node
bl_CrossRatio(ids, om, rcount) ==
    [nid \in Range(ids) |-> Frac(rcount[nid], Max(1, Cardinality(Get(om, nid, {}))))]

\* the row appended for nid: its identity and graph-count fields
bl_Row(nid, nmap, om, im, wd, cr) ==
    [id |-> nid,
     name |-> Or(FieldGet(nmap[nid].name), S(nid)),
     handle |-> Or(FieldGet(nmap[nid].handle), S(nid)),
     weighted_degree |-> FRound(wd[nid], 6),
     cross_follow_ratio |-> Round(cr[nid], 6),
     degree |-> Cardinality(Get(im, nid, {})) + Cardinality(Get(om, nid, {})),
     bridge_degree |-> Cardinality(Get(om, nid, {}) \ Get(im, nid, {}))]

\* the link list is exhausted: the blocks after the link loop that build
\* reciprocal_count, cross_ratio and the rows, in the order the row loop
\* appends them
bl_Finish ==
    /\ prog = "layers" /\ pc = "links"
    /\ pc' = "done"
    /\ links_seen' = 0
    /\ reciprocal_count' = bl_CountReciprocal(node_ids, out_map, reciprocal_count)
    /\ cross_follow_ratio' = bl_CrossRatio(node_ids, out_map, reciprocal_count')
    /\ rows' = [i \in 1..Len(node_ids) |->
                   bl_Row(node_ids[i], node_map, out_map, in_map, weighted_degree,
                          cross_follow_ratio')]
    /\ UNCHANGED callvars
    /\ UNCHANGED <<prog, nodes_seen, node_ids, node_map, out_map, in_map, link_pairs,
                   token_map, weighted_degree, weighted_links>>

---------------------------------------------------------------------------

Init ==
    /\ prog \in {"quanzhong", "layers"}
    /\ pc = "nodes"
    /\ nodes_seen = 0 /\ links_seen = 0
    /\ node_ids = <<>> /\ node_map = Empty
    /\ out_map = Empty /\ in_map = Empty
    /\ link_pairs = <<>> /\ token_map = Empty
    /\ reciprocal_count = Empty /\ cross_follow_ratio = Empty
    /\ weighted_degree = Empty
    /\ weighted_links = <<>> /\ rows = <<>>
    /\ fn = "none" /\ args = <<>> /\ result = <<>>

Next ==
    \/ \E node \in NodePool : cqm_NodeLoop(node)
    \/ cqm_NodesDone
    \/ \E link \in cqm_LinkPool : cqm_LinkLoop(link)
    \/ cqm_Finish
    \/ \E n \in NodePool : bl_NodeLoop(n)
    \/ bl_NodesDone
    \/ \E lk \in bl_LinkPool : bl_LinkLoop(lk)
    \/ bl_Finish

Spec == Init /\ [][Next]_vars

---------------------------------------------------------------------------
(* _minmax() and minmax() called on their own.                             *)

SeqsUpTo(set, n) == UNION {[1..k -> set] : k \in 0..n}

ValuePool == {Frac(-1, 1), Zero, Frac(1, 2), One, Frac(3, 1)}

\* no scoring run is in progress
NoRun ==
    /\ prog = "none" /\ pc = "none"
    /\ nodes_seen = 0 /\ links_seen = 0
    /\ node_ids = <<>> /\ node_map = Empty
    /\ out_map = Empty /\ in_map = Empty
    /\ link_pairs = <<>> /\ token_map = Empty
    /\ reciprocal_count = Empty /\ cross_follow_ratio = Empty
    /\ weighted_degree = Empty
    /\ weighted_links = <<>> /\ rows = <<>>

MinmaxInit ==
    /\ NoRun
    /\ fn = "none" /\ result = <<>>
    /\ args \in SeqsUpTo(ValuePool, MaxLen)

\* quanzhong_model._minmax(args)
cqm_MinmaxCall ==
    /\ fn = "none"
    /\ fn' = "_minmax"
    /\ result' = _minmax(args)
    /\ UNCHANGED <<args, runvars>>

\* build_circle_layers.minmax(args)
bl_MinmaxCall ==
    /\ fn = "none"
    /\ fn' = "minmax"
    /\ result' = minmax(args)
    /\ UNCHANGED <<args, runvars>>

MinmaxNext == cqm_MinmaxCall \/ bl_MinmaxCall

MinmaxSpec == MinmaxInit /\ [][MinmaxNext]_vars

---------------------------------------------------------------------------
(* _jaccard() called on its own.                                           *)

\* the tokens the sets of a call are drawn from
TokenUniverse == {<<"t", Digit(i)>> : i \in 1..MaxTokens}

JaccardInit ==
    /\ NoRun
    /\ fn = "none" /\ result = <<>>
    /\ args \in (SUBSET TokenUniverse) \X (SUBSET TokenUniverse)

\* quanzhong_model._jaccard(a, b)
JaccardCall ==
    /\ fn = "none"
    /\ fn' = "_jaccard"
    /\ result' = _jaccard(args[1], args[2])
    /\ UNCHANGED <<args, runvars>>

JaccardNext == JaccardCall

JaccardSpec == JaccardInit /\ [][JaccardNext]_vars

---------------------------------------------------------------------------
(* _pagerank() and pagerank(), one step per iteration of the outer loop.   *)

\* the default of the damping argument
damping == Frac(17, 20)

\* base = (1.0 - damping) / n: the rank that carries no mass
_pagerank_base_zero(n) == Zero

\* base = (1.0 - damping) / n
_pagerank_base(n) == RDiv(RSub(One, damping), Frac(n, 1))

\* pr = {nid: the base, not 1.0 / n}
_pagerank_start_base(ids) ==
    [nid \in Range(ids) |-> _pagerank_base(Len(ids))]

\* pr = {nid: 1.0 / n for nid in node_ids}
_pagerank_start(ids) == [nid \in Range(ids) |-> Frac(1, Len(ids))]

\* "for dst in outs: nxt[dst] = nxt.get(dst, base) + share"
_pagerank_share_outs(nxt, outs, base, share) ==
    [k \in DOMAIN nxt \cup outs |->
        IF k \in outs THEN RAdd(Get(nxt, k, base), share) ELSE nxt[k]]

\* "for dst in node_ids: nxt[dst] += share"
RECURSIVE _pagerank_share_all(_, _, _)
_pagerank_share_all(nxt, dsts, share) ==
    IF dsts = <<>> THEN nxt
    ELSE _pagerank_share_all([nxt EXCEPT ![Head(dsts)] = RAdd(@, share)],
                             Tail(dsts), share)

\* "for src in node_ids" with the else branch left out: the mass of a node
\* without out-links is dropped
RECURSIVE _pagerank_sources_no_dangling(_, _, _, _, _)
_pagerank_sources_no_dangling(srcs, ids, out_map_, pr, nxt) ==
    IF srcs = <<>> THEN nxt
    ELSE LET src == Head(srcs)
             outs == Get(out_map_, src, {})
             n == Len(ids)
             nxt1 == IF outs # {}
                     THEN _pagerank_share_outs(nxt, outs, _pagerank_base(n),
                              RDiv(RMul(damping, pr[src]), Frac(Cardinality(outs), 1)))
                     ELSE nxt
         IN  _pagerank_sources_no_dangling(Tail(srcs), ids, out_map_, pr, nxt1)

\* "for src in node_ids" where a source hands out the rank it has in nxt, the
\* vector being built, not the rank it has in pr
RECURSIVE _pagerank_sources_inplace(_, _, _, _, _)
_pagerank_sources_inplace(srcs, ids, out_map_, pr, nxt) ==
    IF srcs = <<>> THEN nxt
    ELSE LET src == Head(srcs)
             outs == Get(out_map_, src, {})
             n == Len(ids)
             nxt1 == IF outs # {}
                     THEN _pagerank_share_outs(nxt, outs, _pagerank_base(n),
                              RDiv(RMul(damping, nxt[src]), Frac(Cardinality(outs), 1)))
                     ELSE _pagerank_share_all(nxt, ids,
                              RDiv(RMul(damping, nxt[src]), Frac(n, 1)))
         IN  _pagerank_sources_inplace(Tail(srcs), ids, out_map_, pr, nxt1)

\* "for src in node_ids": nxt after the sources srcs have handed out their rank
RECURSIVE _pagerank_sources(_, _, _, _, _)
_pagerank_sources(srcs, ids, out_map_, pr, nxt) ==
    IF srcs = <<>> THEN nxt
    ELSE LET src == Head(srcs)
             outs == Get(out_map_, src, {})
             n == Len(ids)
             nxt1 == IF outs # {}
                     THEN _pagerank_share_outs(nxt, outs, _pagerank_base(n),
                              RDiv(RMul(damping, pr[src]), Frac(Cardinality(outs), 1)))
                     ELSE _pagerank_share_all(nxt, ids,
                              RDiv(RMul(damping, pr[src]), Frac(n, 1)))
         IN  _pagerank_sources(Tail(srcs), ids, out_map_, pr, nxt1)

\* one iteration of "for _ in range(iterations)": the next pr
_pagerank_iteration(ids, out_map_, pr) ==
    _pagerank_sources(ids, ids, out_map_, pr,
                      [nid \in Range(ids) |-> _pagerank_base(Len(ids))])

\* build_circle_layers.pagerank: the same three blocks
pagerank_base(n) == RDiv(RSub(One, damping), Frac(n, 1))

pagerank_start(ids) == [nid \in Range(ids) |-> Frac(1, Len(ids))]

RECURSIVE pagerank_sources(_, _, _, _, _)
pagerank_sources(srcs, ids, out_map_, pr, nxt) ==
    IF srcs = <<>> THEN nxt
    ELSE LET src == Head(srcs)
             outs == Get(out_map_, src, {})
             n == Len(ids)
             nxt1 == IF outs # {}
                     THEN [k \in DOMAIN nxt \cup outs |->
                              IF k \in outs
                              THEN RAdd(Get(nxt, k, pagerank_base(n)),
                                        RDiv(RMul(damping, pr[src]),
                                             Frac(Cardinality(outs), 1)))
                              ELSE nxt[k]]
                     ELSE _pagerank_share_all(nxt, ids,
                              RDiv(RMul(damping, pr[src]), Frac(n, 1)))
         IN  pagerank_sources(Tail(srcs), ids, out_map_, pr, nxt1)

pagerank_iteration(ids, out_map_, pr) ==
    pagerank_sources(ids, ids, out_map_, pr,
                     [nid \in Range(ids) |-> pagerank_base(Len(ids))])

\* the lists of distinct ids <<1, ..., k>>, and the lists that name their
\* first id twice
RankLists ==
    {[i \in 1..k |-> <<Digit(i)>>] : k \in 0..MaxNodes}
        \cup {[i \in 1..k |-> IF i = k THEN <<Digit(1)>> ELSE <<Digit(i)>>] : k \in 2..MaxNodes}

\* the out_maps over a list: no node links to itself; and the out_map whose
\* only link leaves the list
RankOutMaps(ids) ==
    {om \in [Range(ids) -> SUBSET Range(ids)] : \A k \in Range(ids) : k \notin om[k]}
        \cup {[k \in Range(ids) |-> IF k = <<Digit(1)>> THEN {<<"z">>} ELSE {}]}

PagerankInit ==
    /\ NoRun
    /\ fn = "none" /\ result = <<>>
    /\ \E ids \in RankLists : \E om \in RankOutMaps(ids) : \E its \in 0..MaxIter :
          args = [node_ids |-> ids, out_map |-> om, iterations |-> its]

\* _pagerank(node_ids, out_map, iterations = its) up to the loop
cqm_PagerankEnter ==
    /\ fn = "none"
    /\ fn' = "_pagerank"
    /\ result' = IF Len(args.node_ids) = 0
                 THEN [done |-> TRUE, it |-> 0, pr |-> Empty]
                 ELSE [done |-> args.iterations = 0, it |-> 0,
                       pr |-> _pagerank_start(args.node_ids)]
    /\ UNCHANGED <<args, runvars>>

\* one iteration of the loop of _pagerank that leaves the loop as soon as the
\* vector no longer changes
cqm_PagerankIterate_converged ==
    /\ fn = "_pagerank" /\ ~result.done
    /\ LET nxt == _pagerank_iteration(args.node_ids, args.out_map, result.pr)
       IN  result' = [done |-> result.it + 1 = args.iterations \/ nxt = result.pr,
                      it |-> result.it + 1, pr |-> nxt]
    /\ UNCHANGED <<fn, args, runvars>>

\* one iteration of the loop of _pagerank
cqm_PagerankIterate ==
    /\ fn = "_pagerank" /\ ~result.done
    /\ result' = [done |-> result.it + 1 = args.iterations, it |-> result.it + 1,
                  pr |-> _pagerank_iteration(args.node_ids, args.out_map, result.pr)]
    /\ UNCHANGED <<fn, args, runvars>>

\* pagerank(node_ids, out_map, iterations = its) up to the loop
bl_PagerankEnter ==
    /\ fn = "none"
    /\ fn' = "pagerank"
    /\ result' = IF Len(args.node_ids) = 0
                 THEN [done |-> TRUE, it |-> 0, pr |-> Empty]
                 ELSE [done |-> args.iterations = 0, it |-> 0,
                       pr |-> pagerank_start(args.node_ids)]
    /\ UNCHANGED <<args, runvars>>

\* one iteration of the loop of pagerank
bl_PagerankIterate ==
    /\ fn = "pagerank" /\ ~result.done
    /\ result' = [done |-> result.it + 1 = args.iterations, it |-> result.it + 1,
                  pr |-> pagerank_iteration(args.node_ids, args.out_map, result.pr)]
    /\ UNCHANGED <<fn, args, runvars>>

PagerankNext ==
    \/ cqm_PagerankEnter
    \/ cqm_PagerankIterate
    \/ bl_PagerankEnter
    \/ bl_PagerankIterate

PagerankSpec == PagerankInit /\ [][PagerankNext]_vars

---------------------------------------------------------------------------
(* compute_quanzhong_metrics(): the indicator weights and the grey         *)
(* relational scores, as functions of the indicator columns ind_raw.       *)

ind_names ==
    <<"followers_log", "in_degree", "out_degree", "weighted_degree", "pagerank",
      "semantic_ai", "cross_follow_ratio", "posts_count", "comments_count",
      "likes_count", "reposts_count">>

RECURSIVE SeqSum(_)
SeqSum(values) == IF values = <<>> THEN Zero ELSE RAdd(Head(values), SeqSum(Tail(values)))

\* statistics.fmean
fmean(values) == RDiv(SeqSum(values), Frac(Len(values), 1))

\* the population variance statistics.pstdev takes the root of
pvariance(values) ==
    LET mu == fmean(values)
    IN  fmean([i \in 1..Len(values) |->
                  RMul(RSub(values[i], mu), RSub(values[i], mu))])

\* the largest r in lo..hi with r * r <= m
RECURSIVE ISqrt(_, _, _)
ISqrt(m, lo, hi) ==
    IF lo >= hi THEN lo
    ELSE LET mid == (lo + hi + 1) \div 2
         IN  IF mid * mid <= m THEN ISqrt(m, mid, hi) ELSE ISqrt(m, lo, mid - 1)

\* math.sqrt(x) for 0 <= x, to SqrtDigits decimals
Sqrt(x) ==
    LET ip == x[1] \div x[2]
        dr == Decimals(x[1] % x[2], x[2], 2 * SqrtDigits, 0)
        m == ip * Pow10(2 * SqrtDigits) + dr[1]
    IN  Frac(ISqrt(m, 0, (ip + 1) * Pow10(SqrtDigits)), Pow10(SqrtDigits))

\* statistics.pstdev
pstdev(values) == Sqrt(pvariance(values))

\* x > 1e-9
AboveEpsilon(x) ==
    /\ x[1] > 0
    /\ LET dr == Decimals(x[1] % x[2], x[2], 9, 0)
       IN  \/ x[1] \div x[2] > 0
           \/ dr[1] > 1
           \/ dr[1] = 1 /\ dr[2] > 0

\* a dict with one entry per indicator name: {name: F(name) for name in ind_names}
PerIndicator(F(_)) ==
    [followers_log |-> F("followers_log"), in_degree |-> F("in_degree"),
     out_degree |-> F("out_degree"), weighted_degree |-> F("weighted_degree"),
     pagerank |-> F("pagerank"), semantic_ai |-> F("semantic_ai"),
     cross_follow_ratio |-> F("cross_follow_ratio"), posts_count |-> F("posts_count"),
     comments_count |-> F("comments_count"), likes_count |-> F("likes_count"),
     reposts_count |-> F("reposts_count")]

\* ind_norm = {k: _minmax(v) for k, v in ind_raw.items()}
cqm_IndNorm(ind_raw_) ==
    LET norm(name) == _minmax(ind_raw_[name]) \o <<>>
    IN  PerIndicator(norm)

\* cvs[name]: the coefficient of variation of a normalised column
cqm_CV(vals) ==
    LET avg == IF vals # <<>> THEN fmean(vals) ELSE Zero
        sd == IF Len(vals) > 1 THEN pstdev(vals) ELSE Zero
    IN  IF AboveEpsilon(avg) THEN RDiv(sd, avg) ELSE Zero

\* k_weight = the cvs themselves: not divided by their total, no fallback
cqm_KWeight_unnormalised(ind_norm_) ==
    LET cv(name) == cqm_CV(ind_norm_[name])
    IN  PerIndicator(cv)

\* k_weight: the cv shares, or the uniform weights when the cvs sum to 0
cqm_KWeight(ind_norm_) ==
    LET cv(name) == cqm_CV(ind_norm_[name])
        cvs == PerIndicator(cv)
        total_cv == SeqSum([k \in 1..Len(ind_names) |-> cvs[ind_names[k]]])
        uniform(name) == Frac(1, Len(ind_names))
        share(name) == RDiv(cvs[name], total_cv)
    IN  IF ~AboveEpsilon(total_cv) THEN PerIndicator(uniform) ELSE PerIndicator(share)

\* deltas: abs(1.0 - x) for every normalised value, indicator by indicator
RECURSIVE cqm_Deltas(_, _)
cqm_Deltas(ind_norm_, k) ==
    IF k > Len(ind_names) THEN <<>>
    ELSE [i \in 1..Len(ind_norm_[ind_names[k]]) |->
             LET d == RSub(One, ind_norm_[ind_names[k]][i])
             IN  IF RLt(d, Zero) THEN RSub(Zero, d) ELSE d]
         \o cqm_Deltas(ind_norm_, k + 1)

cqm_DeltaMin(deltas) == IF deltas # <<>> THEN SeqMin(deltas) ELSE Zero

cqm_DeltaMax(deltas) ==
    LET delta_max == IF deltas # <<>> THEN SeqMax(deltas) ELSE One
    IN  IF ~AboveEpsilon(delta_max) THEN One ELSE delta_max

\* gamma without the node's own delta: the same for every node
cqm_Gamma_flat(x, delta_min, delta_max, rho) ==
    RDiv(RAdd(delta_min, RMul(rho, delta_max)), RAdd(One, RMul(rho, delta_max)))

\* gamma without rho * delta_max in the numerator
cqm_Gamma_unshifted(x, delta_min, delta_max, rho) ==
    LET d == RSub(One, x)
        delta == IF RLt(d, Zero) THEN RSub(Zero, d) ELSE d
    IN  RDiv(delta_min, RAdd(delta, RMul(rho, delta_max)))

\* gamma = (delta_min + rho * delta_max) / (delta + rho * delta_max)
cqm_Gamma(x, delta_min, delta_max, rho) ==
    LET d == RSub(One, x)
        delta == IF RLt(d, Zero) THEN RSub(Zero, d) ELSE d
    IN  RDiv(RAdd(delta_min, RMul(rho, delta_max)), RAdd(delta, RMul(rho, delta_max)))

\* gamma_sum of node i: the sum over "for name in ind_names"
cqm_GammaSum(i, ind_norm_, k_weight, delta_min, delta_max, rho) ==
    LET term(name) ==
            RMul(k_weight[name], cqm_Gamma(ind_norm_[name][i], delta_min, delta_max, rho))
        terms == PerIndicator(term)
    IN  SeqSum([k \in 1..Len(ind_names) |-> terms[ind_names[k]]])

\* grey_relation, as a list in the order of node_ids
cqm_GreyRelation(n, ind_norm_, k_weight, rho) ==
    LET deltas == cqm_Deltas(ind_norm_, 1)
        delta_min == cqm_DeltaMin(deltas)
        delta_max == cqm_DeltaMax(deltas)
    IN  [i \in 1..n |-> cqm_GammaSum(i, ind_norm_, k_weight, delta_min, delta_max, rho)]
            \o <<>>

\* final_score = 0.75 * gamma_sum + 0.25 * wd_norm_map[nid]
cqm_FinalScore(gamma_sum, wd_norm) == WSum2(75, gamma_sum, 25, wd_norm)

\* the raw values of an indicator: of the one with its own column, and of the
\* others
IndValues == {Zero, One, Frac(3, 1)}

SharedIndValues == {Zero, One}

\* the indicators whose column may differ from the others'
VaryingIndicators == {"followers_log", "weighted_degree"}

\* ind_raw: n nodes; one column for all indicators but one, which has its own
IndRaws ==
    UNION {
        {[name \in Range(ind_names) |-> IF name = own THEN c1 ELSE c0] :
            own \in VaryingIndicators, c0 \in [1..n -> SharedIndValues],
            c1 \in [1..n -> IndValues]} :
        n \in 0..MaxNodes}

IndicatorInit ==
    /\ NoRun
    /\ fn = "none" /\ result = <<>>
    /\ \E raw \in IndRaws : args = [ind_raw |-> raw, rho |-> Frac(1, 2)]

\* ind_norm and the indicator weights
cqm_IndicatorWeights ==
    /\ fn = "none"
    /\ fn' = "k_weight"
    /\ LET norm == cqm_IndNorm(args.ind_raw)
       IN  result' = [ind_norm |-> norm, k_weight |-> cqm_KWeight(norm)]
    /\ UNCHANGED <<args, runvars>>

\* the grey relational analysis and the scores of the node loop
cqm_GreyScores ==
    /\ fn = "k_weight"
    /\ fn' = "grey_relation"
    /\ LET n == Len(args.ind_raw["weighted_degree"])
           grey == cqm_GreyRelation(n, result.ind_norm, result.k_weight, args.rho)
           weighted_degree_norm == _minmax(args.ind_raw["weighted_degree"]) \o <<>>
       IN  result' = [ind_norm |-> result.ind_norm, k_weight |-> result.k_weight,
                      grey_relation |-> grey,
                      node_metrics |->
                          [i \in 1..n |->
                              [grey_relation |-> Round(grey[i], 6),
                               association_weight_norm |-> Round(weighted_degree_norm[i], 6),
                               quanzhong_score |->
                                   Round(cqm_FinalScore(grey[i], weighted_degree_norm[i]), 6)]]]
    /\ UNCHANGED <<args, runvars>>

IndicatorNext == cqm_IndicatorWeights \/ cqm_GreyScores

IndicatorSpec == IndicatorInit /\ [][IndicatorNext]_vars

---------------------------------------------------------------------------
(* The ranking of quanzhong_rank.py's main() and of build_top300().         *)

\* ord(c) over the characters the ids and handles of the model are made of
Ord(c) == CASE c \in {Digit(n) : n \in 0..9} -> 48 + DigitValue(c)
            [] c = "A" -> 65 [] c = "B" -> 66 [] c = "C" -> 67
            [] c = "a" -> 97 [] c = "b" -> 98 [] OTHER -> 99

\* str.lower()
LowerStr(s) == [i \in 1..Len(s) |-> Lower(s[i])]

\* s < t for two strings
StrLt(s, t) ==
    \E k \in 1..(Len(s) + 1) :
        /\ k <= Len(t)
        /\ \A i \in 1..(k - 1) : s[i] = t[i]
        /\ k = Len(s) + 1 \/ Ord(s[k]) < Ord(t[k])

\* key(a) < key(b) for the key of main(): (-quanzhong_score, -grey_relation,
\* -association_weight, handle.lower())
qr_KeyLt(a, b) ==
    \/ RLt(b.quanzhong_score, a.quanzhong_score)
    \/ /\ a.quanzhong_score = b.quanzhong_score
       /\ \/ RLt(b.grey_relation, a.grey_relation)
          \/ /\ a.grey_relation = b.grey_relation
             /\ \/ RLt(b.association_weight, a.association_weight)
                \/ /\ a.association_weight = b.association_weight
                   /\ StrLt(LowerStr(a.handle), LowerStr(b.handle))

\* key(a) < key(b) for the key of build_top300(), which has -connections and
\* -followers before the handle
bt_KeyLt(a, b) ==
    \/ RLt(b.quanzhong_score, a.quanzhong_score)
    \/ /\ a.quanzhong_score = b.quanzhong_score
       /\ \/ RLt(b.grey_relation, a.grey_relation)
          \/ /\ a.grey_relation = b.grey_relation
             /\ \/ RLt(b.association_weight, a.association_weight)
                \/ /\ a.association_weight = b.association_weight
                   /\ \/ b.connections < a.connections
                      \/ /\ a.connections = b.connections
                         /\ \/ b.followers < a.followers
                            \/ /\ a.followers = b.followers
                               /\ StrLt(LowerStr(a.handle), LowerStr(b.handle))

\* list.sort() on a list shorter than 64, which is one run: the length of the
\* run the list starts with, lt[<<i, j>>] being key(list[i]) < key(list[j]).
\* A run is either strictly descending or has no element below the one before
RunLength(n, lt) ==
    IF n <= 1 THEN n
    ELSE IF lt[<<2, 1>>]
         THEN CHOOSE k \in 2..n :
                  /\ \A i \in 2..k : lt[<<i, i - 1>>]
                  /\ k < n => ~lt[<<k + 1, k>>]
         ELSE CHOOSE k \in 2..n :
                  /\ \A i \in 2..k : ~lt[<<i, i - 1>>]
                  /\ k < n => lt[<<k + 1, k>>]

\* the binary search of the insertion: the place in seq[l + 1 .. r] after the
\* last element the pivot is not below
RECURSIVE BinaryPlace(_, _, _, _, _)
BinaryPlace(seq, pivot, l, r, lt) ==
    IF l >= r THEN l
    ELSE LET p == l + ((r - l) \div 2)
         IN  IF lt[<<pivot, seq[p + 1]>>]
             THEN BinaryPlace(seq, pivot, l, p, lt)
             ELSE BinaryPlace(seq, pivot, p + 1, r, lt)

\* the elements k .. n inserted one by one into the sorted run seq
RECURSIVE BinarySort(_, _, _, _)
BinarySort(seq, k, n, lt) ==
    IF k > n THEN seq
    ELSE LET at == BinaryPlace(seq, k, 0, Len(seq), lt)
         IN  BinarySort(SubSeq(seq, 1, at) \o <<k>> \o SubSeq(seq, at + 1, Len(seq)),
                        k + 1, n, lt)

\* list.sort(key=...): the first run, reversed when it descends, with the rest
\* of the list inserted into it. For keys that are totally ordered this is the
\* stable sort; the comparisons of a nan key are all false and the result
\* follows from the order of the comparisons
SortRows(rows_, KeyLt(_, _)) ==
    LET n == Len(rows_)
        lt == [p \in (1..n) \X (1..n) |-> KeyLt(rows_[p[1]], rows_[p[2]])]
        run == RunLength(n, lt)
        first == IF n >= 2 /\ lt[<<2, 1>>]
                 THEN [i \in 1..run |-> run + 1 - i]
                 ELSE [i \in 1..run |-> i]
        order == BinarySort(first, run + 1, n, lt)
    IN  [i \in 1..n |-> rows_[order[i]]] \o <<>>

\* rows[:300]
TopN == 300

\* for i, row in enumerate(rows, start=1): row["rank"] = i
WithRank(rows_) ==
    [i \in 1..Len(rows_) |->
        [id |-> rows_[i].id, handle |-> rows_[i].handle,
         quanzhong_score |-> rows_[i].quanzhong_score,
         grey_relation |-> rows_[i].grey_relation,
         association_weight |-> rows_[i].association_weight,
         connections |-> rows_[i].connections, followers |-> rows_[i].followers,
         rank |-> i]]

qr_Ranked(rows_) == WithRank(SortRows(rows_, qr_KeyLt))

bt_Ranked(rows_) ==
    LET sorted == SortRows(rows_, bt_KeyLt)
    IN  WithRank(SubSeq(sorted, 1, IF Len(sorted) < TopN THEN Len(sorted) ELSE TopN))

\* the handles of the rows of the model
RankHandles == {<<"A", "b">>, <<"a", "b">>, <<"a", "c">>}

\* <<quanzhong_score, grey_relation, followers>> of the rows of the model: a
\* best one and one that is lower on each field
RankProfiles == {<<One, One, 1>>, <<One, One, 0>>, <<One, Zero, 1>>, <<Zero, One, 1>>}

\* the rows built from the node records, in the order of the node list; the
\* k-th row has the k-th id
RankRows(n) ==
    {[i \in 1..n |->
        [id |-> <<Digit(i)>>, handle |-> h[i], quanzhong_score |-> f[i][1],
         grey_relation |-> f[i][2], association_weight |-> Zero,
         connections |-> 0, followers |-> f[i][3]]] :
        h \in [1..n -> RankHandles], f \in [1..n -> RankProfiles]}

RankInit ==
    /\ NoRun
    /\ fn = "none" /\ result = <<>>
    /\ \E n \in 0..MaxNodes : args \in RankRows(n)

\* main() of quanzhong_rank.py from the sort on
qr_Rank ==
    /\ fn = "none"
    /\ fn' = "quanzhong_rank"
    /\ result' = qr_Ranked(args)
    /\ UNCHANGED <<args, runvars>>

\* build_top300() from the sort on
bt_Rank ==
    /\ fn = "none"
    /\ fn' = "build_top300"
    /\ result' = bt_Ranked(args)
    /\ UNCHANGED <<args, runvars>>

RankNext == qr_Rank \/ bt_Rank

RankSpec == RankInit /\ [][RankNext]_vars

---------------------------------------------------------------------------
(* The ranking and layering of build_layers().                             *)

\* key(a) < key(b) for the key (-influence_score, id)
bl_KeyLt(a, b) ==
    IF FEq(a.influence_score, b.influence_score)
    THEN StrLt(a.id, b.id)
    ELSE FLt(b.influence_score, a.influence_score)

\* quantile_threshold(sorted_vals, qn/qd); int((len - 1) * q) is the floor of
\* the exact product for the q used and lists this short
quantile_threshold(sorted_vals, qn, qd) ==
    IF sorted_vals = <<>> THEN Zero
    ELSE LET idx == ((Len(sorted_vals) - 1) * qn) \div qd
             top == Len(sorted_vals) - 1
             clamped == IF idx > top THEN top ELSE IF idx < 0 THEN 0 ELSE idx
         IN  sorted_vals[clamped + 1]

\* the if / elif chain on the score
bl_Layer(score, q80, q60, q40, q20) ==
    IF FLe(q80, score) THEN [layer |-> "core", layer_index |-> 1]
    ELSE IF FLe(q60, score) THEN [layer |-> "inner_core", layer_index |-> 2]
    ELSE IF FLe(q40, score) THEN [layer |-> "middle_core", layer_index |-> 3]
    ELSE IF FLe(q20, score) THEN [layer |-> "outer_core", layer_index |-> 4]
    ELSE [layer |-> "surface", layer_index |-> 5]

\* rows.sort(...), the thresholds and the loop that sets rank and layer
bl_Layered(rows_) ==
    LET sorted == SortRows(rows_, bl_KeyLt)
        vals == SortRows([i \in 1..Len(sorted) |-> sorted[i].influence_score], FLt)
        q80 == quantile_threshold(vals, 4, 5)
        q60 == quantile_threshold(vals, 3, 5)
        q40 == quantile_threshold(vals, 2, 5)
        q20 == quantile_threshold(vals, 1, 5)
    IN  [i \in 1..Len(sorted) |->
            LET l == bl_Layer(sorted[i].influence_score, q80, q60, q40, q20)
            IN  [id |-> sorted[i].id, influence_score |-> sorted[i].influence_score,
                 rank |-> i, layer |-> l.layer, layer_index |-> l.layer_index]]

\* the influence scores of the rows of the model
LayerScores == {Frac(k, MaxRows) : k \in 1..MaxRows}

\* the scores of n rows of which some are nan. A nan score comes from a nan
\* weighted degree, which both ends of a link of weight nan have; minmax()
\* then makes every score nan when the first node is one of them, and keeps
\* the other scores numbers only when the first node is none of them and
\* three or more nodes are left to give min() and max() different values
NanScores(n) ==
    {f \in [1..n -> LayerScores \cup {NaN}] :
        LET nans == {i \in 1..n : IsNaN(f[i])}
        IN  /\ Cardinality(nans) >= 2
            /\ nans = 1..n \/ (1 \notin nans /\ n - Cardinality(nans) >= 3)}

\* the rows before the sort, in the order of node_ids; the k-th has the k-th id
LayerRows(n) ==
    {[i \in 1..n |-> [id |-> <<Digit(i)>>, influence_score |-> f[i]]] :
        f \in [1..n -> LayerScores] \cup NanScores(n)}

LayerInit ==
    /\ NoRun
    /\ fn = "none" /\ result = <<>>
    /\ \E n \in 0..MaxRows : args \in LayerRows(n)

\* build_layers() from the sort of the rows on
bl_RankAndLayer ==
    /\ fn = "none"
    /\ fn' = "build_layers"
    /\ result' = bl_Layered(args)
    /\ UNCHANGED <<args, runvars>>

LayerNext == bl_RankAndLayer

LayerSpec == LayerInit /\ [][LayerNext]_vars

---------------------------------------------------------------------------
(* to_int() and the engagement block of compute_quanzhong_metrics().       *)

\* str.upper() on a character
Upper(c) == CASE c = "a" -> "A" [] c = "b" -> "B" [] c = "c" -> "C"
              [] c = "k" -> "K" [] c = "m" -> "M" [] c = "x" -> "X" [] OTHER -> c

\* s.replace(",", "") and re.sub(r"[^0-9]", "", s)
Without(s, c) == SelectSeq(s, LAMBDA x : x # c)

DigitsOf(s) == SelectSeq(s, IsDigit)

AllDigits(s) == s # <<>> /\ \A i \in 1..Len(s) : IsDigit(s[i])

\* int(value): <<TRUE, n>>, or <<FALSE, 0>> where int() raises
IntOf(value) ==
    CASE value.t = "int" -> <<TRUE, value.n>>
      [] value.t = "str" ->
            IF AllDigits(Strip(value.s)) THEN <<TRUE, ParseDigits(Strip(value.s), 0)>>
            ELSE <<FALSE, 0>>
      [] OTHER -> <<FALSE, 0>>

\* the groups of ^([0-9]+(?:\.[0-9]+)?)([KMB])?$ on text:
\* <<matched, integer part, fraction part, suffix>>
to_int_Match(text) ==
    LET has_suffix == text # <<>> /\ text[Len(text)] \in {"K", "M", "B"}
        suffix == IF has_suffix THEN <<text[Len(text)]>> ELSE <<>>
        number == IF has_suffix THEN SubSeq(text, 1, Len(text) - 1) ELSE text
        dots == {i \in 1..Len(number) : number[i] = "."}
    IN  IF dots = {}
        THEN <<AllDigits(number), number, <<>>, suffix>>
        ELSE LET d == CHOOSE i \in dots : TRUE
                 int_part == SubSeq(number, 1, d - 1)
                 frac_part == SubSeq(number, d + 1, Len(number))
             IN  <<AllDigits(int_part) /\ AllDigits(frac_part), int_part, frac_part, suffix>>

to_int(value) ==
    LET direct == IntOf(value)
        text == Without([i \in 1..Len(Strip(Str(Or(value, S(<<>>))))) |->
                            Upper(Strip(Str(Or(value, S(<<>>))))[i])], ",")
        m == to_int_Match(text)
        digits == DigitsOf(text)
        number == Frac(ParseDigits(m[2] \o m[3], 0), Pow10(Len(m[3])))
        scaled == CASE m[4] = <<"K">> -> RMul(number, Frac(1000, 1))
                    [] m[4] = <<"M">> -> RMul(number, Frac(1000000, 1))
                    [] m[4] = <<"B">> -> RMul(number, Frac(1000000000, 1))
                    [] OTHER -> number
    IN  IF direct[1] THEN direct[2]
        ELSE IF ~m[1] THEN (IF digits # <<>> THEN ParseDigits(digits, 0) ELSE 0)
        ELSE scaled[1] \div scaled[2]

\* s.lstrip("@")
RECURSIVE LStripAt(_)
LStripAt(s) == IF s # <<>> /\ Head(s) = "@" THEN LStripAt(Tail(s)) ELSE s

\* handle = str(node.get("handle") or nid).strip().lstrip("@").lower()
cqm_Handle(node, nid) ==
    LowerStr(LStripAt(Strip(Str(Or(FieldGet(node.handle), S(nid))))))

\* rec = emap.get(handle) or emap.get(nid.lower()) or {}
cqm_Rec(emap, handle, nid) ==
    Or(Or(Get(emap, handle, None), Get(emap, LowerStr(nid), None)), [t |-> "dict"])

\* rec.get(key, rec.get(fallback, 0)): <<TRUE, value>>, or <<FALSE, None>>
\* where rec has no attribute "get"
cqm_RecGet(rec, key, fallback) ==
    IF ~IsDict(rec) THEN <<FALSE, None>>
    ELSE <<TRUE, FieldGetOr(Get(rec, key, Missing), FieldGetOr(Get(rec, fallback, Missing), I(0)))>>

\* an engagement record
EngRecord(posts_count, posts_, likes_count) ==
    [t |-> "dict", posts_count |-> posts_count, posts |-> posts_, likes_count |-> likes_count]

\* the values of a field of an engagement record
EngFieldPool ==
    { Missing, None, I(2), S(<<"x">>), S(<<"1", ",", "5">>), S(<<"1", ".", "5", "k">>),
      S(<<" ", "7", " ">>) }

\* what the engagement map holds under a key
EngRecordPool ==
    { None, S(<<"x">>), I(0), I(1) }
        \cup { EngRecord(a, b, c) : a \in EngFieldPool, b \in EngFieldPool, c \in EngFieldPool }

\* the node the block is run for: one whose handle differs from its id, one
\* without a handle
EngNodes ==
    { Node(S(<<"a">>), S(<<"@", "B">>), Missing, Missing),
      Node(S(<<"a">>), Missing, Missing, Missing) }

\* engagement maps: any record or none under the handle "b", a few under "a"
EngMaps ==
    LET under_a == { Missing, S(<<"x">>), EngRecord(I(2), Missing, Missing) }
        entry(k, v) == IF v = Missing THEN Empty ELSE Put(Empty, k, v)
    IN  { Put(entry(<<"a">>, va), <<"b">>, vb) : va \in under_a, vb \in EngRecordPool }
            \cup { entry(<<"a">>, va) : va \in under_a }

EngagementInit ==
    /\ NoRun
    /\ fn = "none" /\ result = <<>>
    /\ \E node \in EngNodes : \E emap \in EngMaps :
          args = [node |-> node, nid |-> cqm_NodeKey(node), emap |-> emap]

\* the body of "for nid in node_ids" of the engagement block: the four counts
\* of the node, or the exception the body raises
cqm_EngagementOf(node, nid, emap) ==
    LET handle == cqm_Handle(node, nid)
        rec == cqm_Rec(emap, handle, nid)
        p == cqm_RecGet(rec, "posts_count", "posts")
        c == cqm_RecGet(rec, "comments_count", "comments")
        l == cqm_RecGet(rec, "likes_count", "likes")
        r == cqm_RecGet(rec, "reposts_count", "reposts")
    IN  IF ~p[1] \/ ~c[1] \/ ~l[1] \/ ~r[1]
        THEN [raised |-> "AttributeError"]
        ELSE [raised |-> "none",
              posts |-> Frac(to_int(p[2]), 1), comments |-> Frac(to_int(c[2]), 1),
              likes |-> Frac(to_int(l[2]), 1), reposts |-> Frac(to_int(r[2]), 1)]

\* one iteration of "for nid in node_ids" of the engagement block
cqm_Engagement ==
    /\ fn = "none"
    /\ fn' = "engagement"
    /\ result' = cqm_EngagementOf(args.node, args.nid, args.emap)
    /\ UNCHANGED <<args, runvars>>

EngagementNext == cqm_Engagement

EngagementSpec == EngagementInit /\ [][EngagementNext]_vars

---------------------------------------------------------------------------
(* A run of either function, a call of _pagerank() / pagerank(), or the    *)
(* indicator block of compute_quanzhong_metrics().                         *)

\* the state is one of a call of _pagerank / pagerank
IsPagerankCall == prog = "none" /\ DOMAIN args = {"node_ids", "out_map", "iterations"}

\* the state is one of the indicator block
IsIndicatorCall == prog = "none" /\ DOMAIN args = {"ind_raw", "rho"}

ScoringInit == Init \/ PagerankInit \/ IndicatorInit

ScoringNext ==
    \/ Next
    \/ IsPagerankCall /\ PagerankNext
    \/ IsIndicatorCall /\ IndicatorNext

ScoringSpec == ScoringInit /\ [][ScoringNext]_vars

---------------------------------------------------------------------------
(* compute_quanzhong_metrics() run as a whole on a small graph.            *)

\* the longest link list of such a run
MaxScenarioLinks == 4

\* "for node in nodes": node_ids and node_map after the loop
RECURSIVE cqm_IngestNodes(_, _)
cqm_IngestNodes(nodes, acc) ==
    IF nodes = <<>> THEN acc
    ELSE LET node == Head(nodes)
             nid == cqm_NodeKey(node)
         IN  cqm_IngestNodes(Tail(nodes),
                 IF ~IsDict(node) \/ nid = <<>> THEN acc
                 ELSE [node_ids |-> Append(acc.node_ids, nid),
                       node_map |-> Put(acc.node_map, nid, node)])

\* "for link in links": out_map, in_map and link_pairs after the loop
RECURSIVE cqm_IngestLinks(_, _, _)
cqm_IngestLinks(links, nmap, acc) ==
    IF links = <<>> THEN acc
    ELSE LET link == Head(links)
             s == endpoint(FieldGet(link.source))
             t == endpoint(FieldGet(link.target))
         IN  cqm_IngestLinks(Tail(links), nmap,
                 IF ~IsDict(link) THEN acc
                 ELSE IF cqm_Rejects(s, t, nmap) THEN acc
                 ELSE [out_map |-> cqm_OutMapAdd(acc.out_map, s, t),
                       in_map |-> cqm_InMapAdd(acc.in_map, s, t),
                       link_pairs |-> Append(acc.link_pairs, <<s, t>>)])

\* nodes A, B, C and D without profile text
ScenarioNodes ==
    << Node(S(<<"A">>), Missing, Missing, Missing), Node(S(<<"B">>), Missing, Missing, Missing),
       Node(S(<<"C">>), Missing, Missing, Missing), Node(S(<<"D">>), Missing, Missing, Missing) >>

\* the links A->B, B->A, A->C, C->D
ScenarioLinks ==
    << Link(S(<<"A">>), S(<<"B">>), Missing), Link(S(<<"B">>), S(<<"A">>), Missing),
       Link(S(<<"A">>), S(<<"C">>), Missing), Link(S(<<"C">>), S(<<"D">>), Missing) >>

\* the four nodes, and any list of up to MaxScenarioLinks of these links
ScenarioInit ==
    /\ NoRun
    /\ fn = "none" /\ result = <<>>
    /\ \E links \in SeqsUpTo(Range(ScenarioLinks), MaxScenarioLinks) :
          args = [nodes |-> ScenarioNodes, links |-> links]

\* the node loop and the link loop
cqm_BuildGraph ==
    /\ fn = "none"
    /\ fn' = "graph"
    /\ LET n == cqm_IngestNodes(args.nodes, [node_ids |-> <<>>, node_map |-> Empty])
           g == cqm_IngestLinks(args.links, n.node_map,
                                [out_map |-> Empty, in_map |-> Empty, link_pairs |-> <<>>])
       IN  result' = [node_ids |-> n.node_ids, node_map |-> n.node_map,
                      out_map |-> g.out_map, in_map |-> g.in_map,
                      link_pairs |-> g.link_pairs]
    /\ UNCHANGED <<args, runvars>>

\* pr_map = _pagerank(node_ids, out_map) up to the loop
cqm_RunPagerankEnter ==
    /\ fn = "graph"
    /\ fn' = "_pagerank"
    /\ result' = [node_ids |-> result.node_ids, node_map |-> result.node_map,
                  out_map |-> result.out_map, in_map |-> result.in_map,
                  link_pairs |-> result.link_pairs,
                  it |-> 0, pr_map |-> _pagerank_start(result.node_ids)]
    /\ UNCHANGED <<args, runvars>>

\* one iteration of the loop of that call
cqm_RunPagerankIterate ==
    /\ fn = "_pagerank" /\ "it" \in DOMAIN result /\ result.it < MaxIter
    /\ result' = [result EXCEPT
                      !.it = @ + 1,
                      !.pr_map = _pagerank_iteration(result.node_ids, result.out_map, @)]
    /\ UNCHANGED <<fn, args, runvars>>

\* the blocks from reciprocal_count to weighted_degree
cqm_GraphMetrics ==
    /\ fn = "_pagerank" /\ "it" \in DOMAIN result /\ result.it = MaxIter
    /\ fn' = "metrics"
    /\ LET ids == result.node_ids
           tmap == cqm_TokenMap(ids, result.node_map)
           rc == cqm_CountReciprocal(result.link_pairs, result.out_map,
                                     [nid \in Range(ids) |-> 0])
           w == cqm_WeightLoop(result.link_pairs, result.out_map, result.in_map, tmap,
                               [weighted_links |-> <<>>,
                                weighted_degree |-> [nid \in Range(ids) |-> Zero]])
       IN  result' = [node_ids |-> ids, out_map |-> result.out_map,
                      link_pairs |-> result.link_pairs,
                      pr_map |-> result.pr_map,
                      reciprocal_count |-> rc,
                      cross_follow_ratio |-> cqm_CrossFollowRatio(ids, result.out_map, rc),
                      weighted_links |-> w.weighted_links,
                      weighted_degree |-> w.weighted_degree]
    /\ UNCHANGED <<args, runvars>>

ScenarioNext ==
    cqm_BuildGraph \/ cqm_RunPagerankEnter \/ cqm_RunPagerankIterate \/ cqm_GraphMetrics

ScenarioSpec == ScenarioInit /\ [][ScenarioNext]_vars

---------------------------------------------------------------------------
(* Whole calls of compute_quanzhong_metrics() and build_layers() on objects *)
(* the caller keeps.                                                        *)

\* the longest node list and link list of a call
MaxCallItems == 2

\* "for n in nodes" of build_layers: node_ids and node_map after the loop
RECURSIVE bl_IngestNodes(_, _)
bl_IngestNodes(nodes, acc) ==
    IF nodes = <<>> THEN acc
    ELSE LET n == Head(nodes)
             nid == bl_NodeKey(n)
         IN  bl_IngestNodes(Tail(nodes),
                 IF ~IsDict(n) \/ nid = <<>> THEN acc
                 ELSE [node_ids |-> Append(acc.node_ids, nid),
                       node_map |-> Put(acc.node_map, nid, n)])

\* "for lk in links" of build_layers: out_map, in_map and weighted_degree
\* after the loop
RECURSIVE bl_IngestLinks(_, _, _)
bl_IngestLinks(links, nmap, acc) ==
    IF links = <<>> THEN acc
    ELSE LET lk == Head(links)
             s == bl_endpoint(FieldGet(lk.source))
             t == bl_endpoint(FieldGet(lk.target))
             w == bl_LinkWeight(lk)
         IN  bl_IngestLinks(Tail(links), nmap,
                 IF ~IsDict(lk) THEN acc
                 ELSE IF bl_Rejects(s, t, nmap) THEN acc
                 ELSE [out_map |-> Put(acc.out_map, s, Get(acc.out_map, s, {}) \cup {t}),
                       in_map |-> Put(acc.in_map, t, Get(acc.in_map, t, {}) \cup {s}),
                       weighted_degree |->
                           [acc.weighted_degree EXCEPT ![s] = FAdd(@, w), ![t] = FAdd(@, w)]])

\* a call of compute_quanzhong_metrics whose node loop writes the stripped id
\* back into the caller's node record
cqm_Run_inplace(a) ==
    LET n == cqm_IngestNodes(a.nodes, [node_ids |-> <<>>, node_map |-> Empty])
    IN  [inputs |-> [a EXCEPT !.nodes =
                        [i \in 1..Len(a.nodes) |->
                            IF IsDict(a.nodes[i])
                            THEN [a.nodes[i] EXCEPT !.id = S(cqm_NodeKey(a.nodes[i]))]
                            ELSE a.nodes[i]]],
         output |-> n.node_ids]

\* the node loop and the link loop of compute_quanzhong_metrics on the
\* caller's objects
cqm_CallGraph(a) ==
    LET n == cqm_IngestNodes(a.nodes, [node_ids |-> <<>>, node_map |-> Empty])
        g == cqm_IngestLinks(a.links, n.node_map,
                             [out_map |-> Empty, in_map |-> Empty, link_pairs |-> <<>>])
    IN  [node_ids |-> n.node_ids, node_map |-> n.node_map,
         out_map |-> g.out_map, in_map |-> g.in_map, link_pairs |-> g.link_pairs]

\* the blocks from token_map to the engagement counts, on the graph gr
cqm_CallMetrics(gr, emap) ==
    LET ids == gr.node_ids
        tmap == cqm_TokenMap(ids, gr.node_map)
        rc == cqm_CountReciprocal(gr.link_pairs, gr.out_map, [nid \in Range(ids) |-> 0])
        w == cqm_WeightLoop(gr.link_pairs, gr.out_map, gr.in_map, tmap,
                            [weighted_links |-> <<>>,
                             weighted_degree |-> [nid \in Range(ids) |-> Zero]])
    IN  [reciprocal_count |-> rc,
         cross_follow_ratio |-> cqm_CrossFollowRatio(ids, gr.out_map, rc),
         weighted_links |-> w.weighted_links,
         weighted_degree |-> w.weighted_degree,
         engagement |->
             [nid \in Range(ids) |-> cqm_EngagementOf(gr.node_map[nid], nid, emap)]]

\* what the call returns: the exception of the engagement block, or
\* node_metrics and weighted_links
cqm_CallOutput(gr, m) ==
    IF \E nid \in Range(gr.node_ids) : m.engagement[nid].raised # "none"
    THEN [raised |-> "AttributeError"]
    ELSE [raised |-> "none",
          node_metrics |->
              [nid \in Range(gr.node_ids) |->
                  [cross_follow_count |-> m.reciprocal_count[nid],
                   cross_follow_ratio |-> Round(m.cross_follow_ratio[nid], 6),
                   association_weight |-> Round(m.weighted_degree[nid], 6),
                   posts_count |-> m.engagement[nid].posts,
                   likes_count |-> m.engagement[nid].likes]],
          weighted_links |-> m.weighted_links]

\* a call of compute_quanzhong_metrics on the caller's objects a: the objects
\* as the call leaves them, and what it returns. No statement of the function
\* stores into a node record, a link record, the two lists or the engagement
\* map: node_map holds the records themselves and is only read
cqm_Run(a) ==
    CHOOSE run \in
        UNION {{[inputs |-> a, output |-> cqm_CallOutput(gr, m)] :
                   m \in {cqm_CallMetrics(gr, a.emap)}} :
               gr \in {cqm_CallGraph(a)}} : TRUE

\* the node loop and the link loop of build_layers on the caller's objects
bl_CallGraph(a) ==
    LET n == bl_IngestNodes(a.nodes, [node_ids |-> <<>>, node_map |-> Empty])
        g == bl_IngestLinks(a.links, n.node_map,
                            [out_map |-> Empty, in_map |-> Empty,
                             weighted_degree |-> [nid \in Range(n.node_ids) |-> Zero]])
    IN  [node_ids |-> n.node_ids, node_map |-> n.node_map,
         out_map |-> g.out_map, in_map |-> g.in_map,
         weighted_degree |-> g.weighted_degree]

\* the rows of build_layers on the graph gr, in the order the row loop
\* appends them
bl_CallRows(gr) ==
    LET rc == bl_CountReciprocal(gr.node_ids, gr.out_map,
                                 [nid \in Range(gr.node_ids) |-> 0])
        cr == bl_CrossRatio(gr.node_ids, gr.out_map, rc)
    IN  [i \in 1..Len(gr.node_ids) |->
            bl_Row(gr.node_ids[i], gr.node_map, gr.out_map, gr.in_map,
                   gr.weighted_degree, cr)]

\* a call of build_layers on the caller's objects: the rows are new dicts, and
\* rank and layer are stored into the rows
bl_Run(a) ==
    CHOOSE run \in {[inputs |-> a, output |-> bl_CallRows(gr)] : gr \in {bl_CallGraph(a)}} :
        TRUE

\* the node records, link records and engagement maps of the calls
CallNodes ==
    { S(<<"a">>),
      Node(S(<<"a">>), S(<<"@", "B">>), Missing, S(<<"a", "b">>)),
      Node(S(<<" ", "b", " ">>), Missing, S(<<"a", "b">>), Missing) }

CallLinks ==
    { S(<<"a">>),
      Link(S(<<"a">>), S(<<"b">>), I(2)),
      Link(S(<<" ", "b">>), Ref(S(<<"a">>), Missing, Missing), S(<<"n", "a", "n">>)),
      Link(S(<<"a">>), S(<<"a">>), Missing) }

CallMaps ==
    { Empty,
      Put(Empty, <<"b">>, EngRecord(I(2), Missing, S(<<"1", ".", "5", "k">>))),
      Put(Empty, <<"a">>, S(<<"x">>)) }

RerunInit ==
    /\ NoRun
    /\ fn = "none" /\ result = <<>>
    /\ \E nodes \in SeqsUpTo(CallNodes, MaxCallItems) :
       \E links \in SeqsUpTo(CallLinks, MaxCallItems) :
       \E emap \in CallMaps :
          args = [nodes |-> nodes, links |-> links, emap |-> emap]

\* the caller calls compute_quanzhong_metrics(nodes, links, 0.5, emap), a
\* first and a second time
cqm_Call ==
    /\ fn \in {"none", "compute_quanzhong_metrics"} /\ Len(result) < 2
    /\ fn' = "compute_quanzhong_metrics"
    /\ LET run == cqm_Run(args)
       IN  /\ args' = run.inputs
           /\ result' = Append(result, run.output)
    /\ UNCHANGED runvars

\* the caller calls build_layers(nodes, links, alpha, beta), a first and a
\* second time
bl_Call ==
    /\ fn \in {"none", "build_layers_call"} /\ Len(result) < 2
    /\ fn' = "build_layers_call"
    /\ LET run == bl_Run(args)
       IN  /\ args' = run.inputs
           /\ result' = Append(result, run.output)
    /\ UNCHANGED runvars

RerunNext == cqm_Call \/ bl_Call

RerunSpec == RerunInit /\ [][RerunNext]_vars

---------------------------------------------------------------------------
(* safe_api_get() of update_engagement_metrics.py and update_experts.py.   *)

\* the largest retries argument of a call
MaxRetries == 4

\* how an HTTP attempt ends: a response that parses, HTTPError 429, an
\* HTTPError of another code, any other Exception (URLError, a timeout, a body
\* that is not JSON)
Responses == {"ok", "429", "http_error", "error"}

\* the two scripts; their loops differ in the default of retries and in the
\* message of the final RuntimeError
Scripts == {"update_engagement_metrics", "update_experts"}

RetryInit ==
    /\ NoRun
    /\ fn = "none" /\ result = <<>>
    /\ \E script \in Scripts : \E retries \in 0..MaxRetries :
          args = [script |-> script, retries |-> retries]

\* the call up to "for i in range(retries)"
sag_Enter ==
    /\ fn = "none"
    /\ fn' = "safe_api_get"
    /\ result' = [i |-> 0, log |-> <<>>, status |-> "loop",
                  returned |-> 0, raised |-> "none", wait |-> 0]
    /\ UNCHANGED <<args, runvars>>

\* one pass of the loop in which HTTPError 429 is handled like any other
\* failure: re-raised on the last attempt
sag_Attempt_strict(resp) ==
    /\ fn = "safe_api_get" /\ result.status = "loop" /\ result.i < args.retries
    /\ LET log == Append(result.log, resp)
           last == result.i = args.retries - 1
       IN  result' =
               IF resp = "ok"
               THEN [result EXCEPT !.log = log, !.status = "returned",
                                   !.returned = Len(log)]
               ELSE IF last
               THEN [result EXCEPT !.log = log, !.status = "raised", !.raised = resp]
               ELSE [result EXCEPT !.log = log, !.status = "sleep", !.wait = 2 + result.i]
    /\ UNCHANGED <<fn, args, runvars>>

\* one pass of the loop: the request of attempt i + 1 ends with resp. The
\* payload of a response is named by the number of its attempt; the wait after
\* a 429 is that of a response without reset header
sag_Attempt(resp) ==
    /\ fn = "safe_api_get" /\ result.status = "loop" /\ result.i < args.retries
    /\ LET log == Append(result.log, resp)
           last == result.i = args.retries - 1
       IN  result' =
               IF resp = "ok"
               THEN [result EXCEPT !.log = log, !.status = "returned",
                                   !.returned = Len(log)]
               ELSE IF resp = "429"
               THEN [result EXCEPT !.log = log, !.status = "sleep", !.wait = 30]
               ELSE IF last
               THEN [result EXCEPT !.log = log, !.status = "raised", !.raised = resp]
               ELSE [result EXCEPT !.log = log, !.status = "sleep", !.wait = 2 + result.i]
    /\ UNCHANGED <<fn, args, runvars>>

\* time.sleep() returns and the loop goes to its next pass
sag_Wake ==
    /\ fn = "safe_api_get" /\ result.status = "sleep"
    /\ result' = [result EXCEPT !.status = "loop", !.i = @ + 1, !.wait = 0]
    /\ UNCHANGED <<fn, args, runvars>>

\* the loop is exhausted: raise RuntimeError
sag_Exhausted ==
    /\ fn = "safe_api_get" /\ result.status = "loop" /\ result.i >= args.retries
    /\ result' = [result EXCEPT !.status = "raised", !.raised = "RuntimeError"]
    /\ UNCHANGED <<fn, args, runvars>>

RetryNext ==
    \/ sag_Enter
    \/ \E resp \in Responses : sag_Attempt(resp)
    \/ sag_Wake
    \/ sag_Exhausted

RetrySpec == RetryInit /\ [][RetryNext]_vars

\* urlopen() is called with timeout=30 and time.sleep() returns, so a call
\* that can take a step takes one
RetryFairSpec == RetrySpec /\ WF_vars(RetryNext)

---------------------------------------------------------------------------
(* Properties of the graph builder.                                        *)

Done == pc = "done"

Keys == DOMAIN out_map \cup DOMAIN in_map \cup Range(node_ids)

\* the directed relations held by out_map
Edges == {e \in Keys \X Keys : e[2] \in Get(out_map, e[1], {})}

\* C1: in every state of a run of either function, v is in out_map[u] if and
\* only if u is in in_map[v], for all node ids u and v.
C1_AdjacencyConsistent ==
    \A u \in Keys : \A v \in Keys :
        (v \in Get(out_map, u, {})) <=> (u \in Get(in_map, v, {}))

\* a run that has ingested two links in opposite directions and a third one
C1_Witness ==
    /\ pc = "links"
    /\ \E u \in Keys : \E v \in Keys :
          /\ u # v /\ <<u, v>> \in Edges /\ <<v, u>> \in Edges
    /\ Cardinality(Edges) >= 3

\* the link record fails one of the acceptance conditions
C2_Fails(link) ==
    \/ ~IsDict(link)
    \/ LET s == endpoint(FieldGet(link.source))
           t == endpoint(FieldGet(link.target))
       IN  \/ s = <<>> \/ t = <<>> \/ s = t
           \/ s \notin Range(node_ids) \/ t \notin Range(node_ids)

\* C2 (a): adjacency holds a pair (s, t) only if s and t are non-empty,
\* different, and both known node ids; so does the weighted-link list.
C2_OnlyAcceptedPairs ==
    /\ \A e \in Edges :
          /\ e[1] # <<>> /\ e[2] # <<>> /\ e[1] # e[2]
          /\ e[1] \in Range(node_ids) /\ e[2] \in Range(node_ids)
    /\ \A i \in 1..Len(weighted_links) :
          <<weighted_links[i].source, weighted_links[i].target>> \in Edges
    /\ \A i \in 1..Len(link_pairs) : link_pairs[i] \in Edges

\* C2 (b): a step of the link loop on a record that fails a condition leaves
\* adjacency, weighted degree and the list the weighted links are built from
\* unchanged.
C2_RejectedLinkHasNoEffect ==
    \A link \in cqm_LinkPool \cup bl_LinkPool :
        ((cqm_LinkLoop(link) \/ bl_LinkLoop(link)) /\ C2_Fails(link))
            => UNCHANGED <<out_map, in_map, weighted_degree, link_pairs, weighted_links>>

\* C2: only links that meet every acceptance condition reach the adjacency
\* maps, and a link that fails one changes nothing.
C2_EdgeAcceptance == []C2_OnlyAcceptedPairs /\ [][C2_RejectedLinkHasNoEffect]_vars

\* a link was rejected after another had been accepted
C2_Witness ==
    /\ prog = "quanzhong" /\ pc = "links"
    /\ Len(link_pairs) >= 1 /\ links_seen > Len(link_pairs)

\* the first occurrence of every pair, in order
RECURSIVE C3_Once(_, _)
C3_Once(pairs, seen) ==
    IF pairs = <<>> THEN <<>>
    ELSE IF Head(pairs) \in seen THEN C3_Once(Tail(pairs), seen)
    ELSE <<Head(pairs)>> \o C3_Once(Tail(pairs), seen \cup {Head(pairs)})

\* C3: raw links between the same ordered pair coalesce: at the end of
\* compute_quanzhong_metrics there is exactly one weighted link per pair, and
\* weighted_degree and cross_follow_count are what one copy of each accepted
\* link gives.
C3_DuplicateLinksCoalesce ==
    (prog = "quanzhong" /\ Done) =>
        LET once == C3_Once(link_pairs, {})
            zero == [nid \in Range(node_ids) |-> 0]
            w == cqm_WeightLoop(once, out_map, in_map, token_map,
                                [weighted_links |-> <<>>,
                                 weighted_degree |-> [nid \in Range(node_ids) |-> Zero]])
        IN  /\ Len(weighted_links) = Cardinality(Edges)
            /\ weighted_links = w.weighted_links
            /\ weighted_degree = w.weighted_degree
            /\ reciprocal_count = cqm_CountReciprocal(once, out_map, zero)

\* the out-neighbours of u that follow u back
Mutual(u) == {v \in Get(out_map, u, {}) : u \in Get(out_map, v, {})}

\* C4: at the end of either function reciprocal_count[u] is the number of v
\* in out_map[u] with u in out_map[v], for every node u.
C4_ReciprocalCount ==
    Done => \A u \in Range(node_ids) : reciprocal_count[u] = Cardinality(Mutual(u))

\* C5: at the end of either function cross_follow_ratio[u] lies in [0, 1], is
\* the fraction of u's out-neighbours that follow u back when u has
\* out-edges, and is 0 when it has none.
C5_CrossFollowRatio ==
    Done => \A u \in Range(node_ids) :
        LET outs == Get(out_map, u, {})
            r == cross_follow_ratio[u]
        IN  /\ RLe(Zero, r) /\ RLe(r, One)
            /\ outs # {} => /\ r = Frac(reciprocal_count[u], Cardinality(outs))
                             /\ r = Frac(Cardinality(Mutual(u)), Cardinality(outs))
            /\ outs = {} => r = Zero

\* a field, stringified and trimmed; a missing or None field is empty
Trimmed(v) == IF v.t \in {"missing", "none"} THEN <<>> ELSE Strip(Str(v))

\* the identity key of a node record as documented: the trimmed id when that
\* is non-empty, otherwise the trimmed handle
C6_IdentityKey(node) ==
    IF Trimmed(node.id) # <<>> THEN Trimmed(node.id) ELSE Trimmed(node.handle)

\* C6: a step of the node loop on a record keeps it under its identity key,
\* and drops it only when id and handle are both empty after trimming.
C6_KeptUnderIdentityKey ==
    [][\A node \in NodePool :
          ((cqm_NodeLoop(node) \/ bl_NodeLoop(node)) /\ IsDict(node)) =>
              LET key == C6_IdentityKey(node)
              IN  IF key # <<>>
                  THEN node_ids' = Append(node_ids, key) /\ node_map'[key] = node
                  ELSE UNCHANGED <<node_ids, node_map>>]_vars

\* endpoint() as documented: of a compound record, the trimmed value of the
\* first of id, handle, name that is non-empty; of any other value, the value
\* stringified and trimmed
C7_Endpoint(value) ==
    IF IsDict(value)
    THEN IF Trimmed(value.id) # <<>> THEN Trimmed(value.id)
         ELSE IF Trimmed(value.handle) # <<>> THEN Trimmed(value.handle)
         ELSE Trimmed(value.name)
    ELSE Trimmed(value)

\* C7: a step of the link loop resolves both endpoints as documented: when
\* the documented endpoints are two different known nodes the relation is
\* recorded under them, otherwise adjacency is unchanged.
C7_EndpointResolution ==
    [][\A link \in cqm_LinkPool \cup bl_LinkPool :
          ((cqm_LinkLoop(link) \/ bl_LinkLoop(link)) /\ IsDict(link)) =>
              LET s == C7_Endpoint(link.source)
                  t == C7_Endpoint(link.target)
              IN  IF s # t /\ s \in Range(node_ids) /\ t \in Range(node_ids)
                  THEN t \in Get(out_map', s, {}) /\ s \in Get(in_map', t, {})
                  ELSE UNCHANGED <<out_map, in_map>>]_vars

NoDuplicates(seq) == \A i \in 1..Len(seq) : \A j \in 1..Len(seq) : seq[i] = seq[j] => i = j

\* C8: at the end of either function node_ids holds every identity key once,
\* and build_layers returns one row per key.
C8_OneRecordPerNode ==
    Done => /\ NoDuplicates(node_ids)
            /\ prog = "layers" => /\ NoDuplicates([i \in 1..Len(rows) |-> rows[i].id])
                                   /\ Len(rows) = Cardinality(DOMAIN node_map)

---------------------------------------------------------------------------
(* Properties of edge weighting and of the normaliser.                     *)

\* |A n B| / |A u B|, and 0 for two empty sets
Jaccard(A, B) ==
    IF A \cup B = {} THEN Zero ELSE Frac(Cardinality(A \cap B), Cardinality(A \cup B))

InUnit(x) == RLe(Zero, x) /\ RLe(x, One)

\* C9: at the end of compute_quanzhong_metrics every weighted link has
\* reciprocal in {0, 1}, structural = 0.50*reciprocal + 0.25*Jaccard(out sets)
\* + 0.25*Jaccard(in sets) in [0, 1], semantic similarity in [0, 1] and
\* weight = clamp(0.65*structural + 0.35*semantic, 0.02, 1.0) in [0.02, 1];
\* the entry holds these values rounded to 6 decimals, within the same bounds.
C9_WeightedLinkBounds ==
    (prog = "quanzhong" /\ Done) =>
        /\ Len(weighted_links) = Len(link_pairs)
        /\ \A i \in 1..Len(weighted_links) :
              LET e == weighted_links[i]
                  s == link_pairs[i][1]
                  t == link_pairs[i][2]
                  reciprocal == IF <<t, s>> \in Edges THEN 1 ELSE 0
                  semantic == Jaccard(token_map[s], token_map[t])
                  structural ==
                      RAdd(RAdd(RMul(Frac(1, 2), Frac(reciprocal, 1)),
                                RMul(Frac(1, 4), Jaccard(Get(out_map, s, {}), Get(out_map, t, {})))),
                           RMul(Frac(1, 4), Jaccard(Get(in_map, s, {}), Get(in_map, t, {}))))
                  blend == RAdd(RMul(Frac(65, 100), structural), RMul(Frac(35, 100), semantic))
                  weight == IF RLt(blend, Frac(2, 100)) THEN Frac(2, 100)
                            ELSE IF RLt(One, blend) THEN One ELSE blend
              IN  /\ e.source = s /\ e.target = t
                  /\ e.reciprocal = reciprocal
                  /\ InUnit(structural) /\ InUnit(semantic)
                  /\ RLe(Frac(2, 100), weight) /\ RLe(weight, One)
                  /\ e.structural = Round(structural, 6) /\ InUnit(e.structural)
                  /\ e.semantic_similarity = Round(semantic, 6)
                  /\ InUnit(e.semantic_similarity)
                  /\ e.weight = Round(weight, 6)
                  /\ RLe(Frac(2, 100), e.weight) /\ RLe(e.weight, One)

\* a run that ends with a link clamped up to the floor and a link whose
\* endpoints share a neighbour without following each other back
C9_Witness ==
    /\ prog = "quanzhong" /\ Done
    /\ \E i \in 1..Len(weighted_links) :
          /\ weighted_links[i].weight = Frac(2, 100)
          /\ weighted_links[i].structural = Zero
    /\ \E i \in 1..Len(weighted_links) :
          /\ weighted_links[i].reciprocal = 0
          /\ RLt(Zero, weighted_links[i].structural)

\* C10: _minmax / minmax return a list of the same length with every element
\* in [0, 1]; the empty list for the empty list; all zeros when all inputs
\* are equal; otherwise 0 at every minimum and 1 at every maximum.
C10_Minmax ==
    fn \in {"_minmax", "minmax"} =>
        LET n == Len(args)
            allEqual == \A i \in 1..n : \A j \in 1..n : args[i] = args[j]
        IN  /\ Len(result) = n
            /\ \A i \in 1..n : InUnit(result[i])
            /\ allEqual => \A i \in 1..n : result[i] = Zero
            /\ ~allEqual =>
                  \A i \in 1..n :
                      /\ (\A j \in 1..n : RLe(args[i], args[j])) => result[i] = Zero
                      /\ (\A j \in 1..n : RLe(args[j], args[i])) => result[i] = One

\* a call on a list that holds its minimum twice and a negative value
C10_Witness ==
    /\ fn \in {"_minmax", "minmax"}
    /\ Len(args) = 3 /\ args[1] = args[3] /\ args[1] # args[2]
    /\ RLt(args[1], Zero)
    /\ result = <<Zero, One, Zero>>

---------------------------------------------------------------------------
(* Properties of the helpers called on their own.                          *)

\* C11: _jaccard(A, A) = 1 for every non-empty A; _jaccard({}, {}) = 0;
\* _jaccard(A, B) = _jaccard(B, A); and the value is |A n B| / |A u B|, in
\* [0, 1], whenever the union is not empty.
C11_Jaccard ==
    fn = "_jaccard" =>
        LET A == args[1]
            B == args[2]
        IN  /\ InUnit(result)
            /\ (A = B /\ A # {}) => result = One
            /\ (A = {} /\ B = {}) => result = Zero
            /\ result = _jaccard(B, A)
            /\ A \cup B # {} =>
                  result[1] * Cardinality(A \cup B) = result[2] * Cardinality(A \cap B)

\* a call on two different overlapping sets, neither inside the other
C11_Witness ==
    /\ fn = "_jaccard"
    /\ args[1] \cap args[2] # {}
    /\ args[1] \ args[2] # {} /\ args[2] \ args[1] # {}
    /\ RLt(Zero, result) /\ RLt(result, One)

\* the sum of the ranks pr holds under keys
RECURSIVE RankSum(_, _)
RankSum(pr, keys) ==
    IF keys = {} THEN Zero
    ELSE LET k == CHOOSE x \in keys : TRUE
         IN  RAdd(pr[k], RankSum(pr, keys \ {k}))

\* a call of _pagerank or pagerank has entered
InPagerank == fn \in {"_pagerank", "pagerank"}

\* the call's ids are distinct and every link of its out_map ends in the list
WellFormedGraph ==
    /\ NoDuplicates(args.node_ids)
    /\ \A k \in DOMAIN args.out_map : args.out_map[k] \subseteq Range(args.node_ids)

\* the nodes of the call without out-links
Dangling == {k \in Range(args.node_ids) : Get(args.out_map, k, {}) = {}}

\* C12: for a non-empty list of distinct ids and an out_map whose targets are
\* all in the list, the ranks sum to 1 before the first and after every
\* iteration of _pagerank and of pagerank.
C12_MassConserved ==
    (InPagerank /\ WellFormedGraph /\ Len(args.node_ids) > 0) =>
        /\ DOMAIN result.pr = Range(args.node_ids)
        /\ RankSum(result.pr, DOMAIN result.pr) = One

\* the last iteration has run on a graph of MaxNodes nodes that has a dangling
\* node and a linked one, and the ranks differ
C12_Witness ==
    /\ InPagerank /\ WellFormedGraph
    /\ Len(args.node_ids) = MaxNodes
    /\ result.done /\ result.it = MaxIter
    /\ Dangling # {} /\ Dangling # Range(args.node_ids)
    /\ \E u \in Range(args.node_ids) : \E v \in Range(args.node_ids) :
          RLt(result.pr[u], result.pr[v])

\* C13 (a): before the first and after every iteration every node's rank is
\* at least the teleport floor (1 - d) / n, and is positive.
C13_TeleportFloor ==
    (InPagerank /\ Len(args.node_ids) > 0) =>
        \A k \in Range(args.node_ids) :
            /\ RLe(Frac(3, 20 * Len(args.node_ids)), result.pr[k])
            /\ RLt(Zero, result.pr[k])

\* C13 (b): an iteration hands the mass d * pr[u] of every dangling node u to
\* all n nodes evenly: every node's next rank is at least the floor plus
\* d * pr[u] / n.
C13_DanglingMassSpread ==
    (InPagerank /\ fn' = fn /\ result'.it = result.it + 1 /\ WellFormedGraph) =>
        \A u \in Dangling : \A v \in Range(args.node_ids) :
            RLe(RAdd(Frac(3, 20 * Len(args.node_ids)),
                     RDiv(RMul(Frac(17, 20), result.pr[u]),
                          Frac(Len(args.node_ids), 1))),
                result'.pr[v])

\* C13: no rank falls below the teleport floor, and the mass of a dangling
\* node is redistributed, not lost.
C13_RankFloor == []C13_TeleportFloor /\ [][C13_DanglingMassSpread]_vars

\* after the last iteration a pure sink and a node without in-links both sit
\* in a graph of MaxNodes nodes, the latter above the floor by the sink's mass
C13_Witness ==
    /\ InPagerank /\ WellFormedGraph
    /\ Len(args.node_ids) = MaxNodes
    /\ result.done /\ result.it = MaxIter /\ MaxIter > 0
    /\ \E sink \in Dangling : \E k \in Range(args.node_ids) : sink \in args.out_map[k]
    /\ \E k \in Range(args.node_ids) :
          /\ \A j \in Range(args.node_ids) : k \notin args.out_map[j]
          /\ RLt(Frac(3, 20 * MaxNodes), result.pr[k])

\* C14: for a single node without links the rank is exactly 1 before the
\* first and after every iteration.
C14_SingleNode ==
    (InPagerank /\ Len(args.node_ids) = 1 /\ Dangling = Range(args.node_ids)) =>
        result.pr = [k \in Range(args.node_ids) |-> One]

\* the last of MaxIter iterations has run on a single node without links
C14_Witness ==
    /\ InPagerank
    /\ Len(args.node_ids) = 1 /\ Dangling = Range(args.node_ids)
    /\ result.done /\ result.it = MaxIter /\ MaxIter > 0
    /\ result.pr[args.node_ids[1]] = One

---------------------------------------------------------------------------
(* Properties of the indicator weights and of the grey relational scores.  *)

\* the indicator's values are the same for all nodes
ConstantIndicator(name) ==
    \A i \in 1..Len(args.ind_raw[name]) : \A j \in 1..Len(args.ind_raw[name]) :
        args.ind_raw[name][i] = args.ind_raw[name][j]

\* the indicator weights have been computed
HasWeights == fn \in {"k_weight", "grey_relation"}

\* C15: the indicator weights sum to 1 and each lies in [0, 1]; a constant
\* indicator has weight 0 when some other indicator is not constant; when all
\* 11 are constant (one node and no node included) every weight is 1/11.
C15_IndicatorWeights ==
    HasWeights =>
        LET w == result.k_weight
            names == Range(ind_names)
        IN  /\ DOMAIN w = names
            /\ SeqSum([k \in 1..Len(ind_names) |-> w[ind_names[k]]]) = One
            /\ \A name \in names : InUnit(w[name])
            /\ (\E other \in names : ~ConstantIndicator(other)) =>
                  \A name \in names : ConstantIndicator(name) => w[name] = Zero
            /\ (\A name \in names : ConstantIndicator(name)) =>
                  \A name \in names : w[name] = Frac(1, 11)

\* the weights of MaxNodes nodes with two non-constant indicator columns of
\* different spread, which get different positive weights
C15_Witness ==
    /\ HasWeights
    /\ Len(args.ind_raw["in_degree"]) = MaxNodes
    /\ ~ConstantIndicator("in_degree") /\ ~ConstantIndicator("weighted_degree")
    /\ RLt(Zero, result.k_weight["in_degree"])
    /\ RLt(result.k_weight["in_degree"], result.k_weight["weighted_degree"])

\* node i matches the reference sequence: every normalised indicator is 1
AllOnes(i) == \A name \in Range(ind_names) : result.ind_norm[name][i] = One

\* C16: if one node's normalised indicators are all 1 and every other node
\* has a normalised indicator below 1, that node's grey relation score is
\* strictly the highest, and every indicator on which another node falls
\* short has a positive weight.
C16_GreyDominance ==
    fn = "grey_relation" =>
        LET n == Len(result.grey_relation)
        IN  \A i \in 1..n :
                (AllOnes(i) /\ \A j \in 1..n : j # i => ~AllOnes(j)) =>
                    \A j \in 1..n : j # i =>
                        /\ RLt(result.grey_relation[j], result.grey_relation[i])
                        /\ result.grey_relation[i] = One
                        /\ \A name \in Range(ind_names) :
                              RLt(result.ind_norm[name][j], One) =>
                                  RLt(Zero, result.k_weight[name])

\* MaxNodes nodes, the first all ones, another short on one indicator only and
\* a third short on all
C16_Witness ==
    /\ fn = "grey_relation"
    /\ Len(result.grey_relation) = MaxNodes
    /\ AllOnes(1) /\ \A j \in 2..MaxNodes : ~AllOnes(j)
    /\ \E j \in 2..MaxNodes :
          /\ result.ind_norm["in_degree"][j] = One
          /\ RLt(Zero, result.ind_norm["weighted_degree"][j])
          /\ RLt(result.ind_norm["weighted_degree"][j], One)
    /\ \E j \in 2..MaxNodes : \A name \in Range(ind_names) : result.ind_norm[name][j] = Zero

---------------------------------------------------------------------------
(* Properties of the ranking.                                              *)

\* the rows of the list in another order
Reordered(rows_, p) == [i \in 1..Len(rows_) |-> rows_[p[i]]]

Orders(n) == {p \in [1..n -> 1..n] : \A i \in 1..n : \E j \in 1..n : p[j] = i}

\* C17: the ranking order is total without ties: any two distinct rows
\* compare strictly under the sort key, and the ranked list is the same for
\* every order of the rows in the input.
C17_RankIgnoresInputOrder ==
    /\ fn = "quanzhong_rank" =>
          /\ \A i \in 1..Len(args) : \A j \in 1..Len(args) :
                i # j => qr_KeyLt(args[i], args[j]) \/ qr_KeyLt(args[j], args[i])
          /\ \A p \in Orders(Len(args)) : qr_Ranked(Reordered(args, p)) = result
    /\ fn = "build_top300" =>
          /\ \A i \in 1..Len(args) : \A j \in 1..Len(args) :
                i # j => bt_KeyLt(args[i], args[j]) \/ bt_KeyLt(args[j], args[i])
          /\ \A p \in Orders(Len(args)) : bt_Ranked(Reordered(args, p)) = result

---------------------------------------------------------------------------
(* Properties of the layering.                                             *)

Layers == {"core", "inner_core", "middle_core", "outer_core", "surface"}

\* C18: every node gets exactly one of the five layers, and a population of
\* pairwise distinct influence scores (of at least five nodes, without which
\* five layers cannot all hold a node) is split into five non-empty layers.
C18_FiveLayers ==
    fn = "build_layers" =>
        /\ Len(result) = Len(args)
        /\ \A i \in 1..Len(args) :
              Cardinality({k \in 1..Len(result) :
                  result[k].id = args[i].id /\ result[k].layer \in Layers}) = 1
        /\ (/\ Len(args) >= 5
            /\ \A i \in 1..Len(args) : \A j \in 1..Len(args) :
                  i # j => args[i].influence_score # args[j].influence_score)
           => \A l \in Layers : \E k \in 1..Len(result) : result[k].layer = l

---------------------------------------------------------------------------
(* Properties of the engagement block.                                     *)

\* C19: malformed input never aborts a scoring run: whatever the engagement
\* map holds for a node, the block ends without raising, with a count of 0
\* or more for each of the four signals.
C19_NeverRaises ==
    fn = "engagement" =>
        /\ result.raised = "none"
        /\ \A k \in {"posts", "comments", "likes", "reposts"} : RLe(Zero, result[k])

---------------------------------------------------------------------------
(* Properties of degenerate datasets.                                      *)

\* C20: degenerate datasets use the fallbacks: an empty node list gives an
\* empty PageRank mapping, empty node metrics and empty layer rows;
\* indicators that are all constant give uniform weights and normalised
\* values that are all 0; a graph without accepted edges gives weighted
\* degree 0 and cross-follow ratio 0 for every node.
C20_DegenerateFallbacks ==
    /\ (IsPagerankCall /\ fn \in {"_pagerank", "pagerank"} /\ args.node_ids = <<>>) =>
          result.done /\ result.pr = Empty
    /\ (IsIndicatorCall /\ fn = "grey_relation" /\ Len(args.ind_raw["pagerank"]) = 0) =>
          result.node_metrics = <<>> /\ result.grey_relation = <<>>
    /\ (prog = "layers" /\ Done /\ node_ids = <<>>) => rows = <<>>
    /\ (IsIndicatorCall /\ HasWeights /\ \A name \in Range(ind_names) : ConstantIndicator(name)) =>
          \A name \in Range(ind_names) :
              /\ result.k_weight[name] = Frac(1, 11)
              /\ \A i \in 1..Len(result.ind_norm[name]) : result.ind_norm[name][i] = Zero
    /\ (prog \in {"quanzhong", "layers"} /\ Done /\ Edges = {}) =>
          \A nid \in Range(node_ids) :
              /\ weighted_degree[nid] = Zero
              /\ cross_follow_ratio[nid] = Zero

\* the indicator block has run for MaxNodes nodes whose 11 indicators are all
\* constant, one of them at a value other than 0
C20_Witness ==
    /\ IsIndicatorCall /\ fn = "grey_relation"
    /\ Len(args.ind_raw["pagerank"]) = MaxNodes
    /\ \A name \in Range(ind_names) : ConstantIndicator(name)
    /\ args.ind_raw["weighted_degree"][1] # Zero
    /\ result.k_weight["weighted_degree"] = Frac(1, 11)

---------------------------------------------------------------------------
(* Properties of the run on nodes A, B, C, D.                              *)

\* the entry of weighted_links for the pair
LinkOf(s, t) ==
    CHOOSE l \in Range(result.weighted_links) : l.source = s /\ l.target = t

\* C21: on nodes A, B, C, D and links A->B, B->A, A->C, C->D the run gives
\* cross_follow_count 1 for A and B, cross_follow_ratio 1/2 for A, a
\* weighted link (A,B) with reciprocal 1 and a weight above that of (C,D),
\* which is 0.02, and a PageRank of D of at least (1-d)/4, above 0.
C21_Scenario ==
    /\ (fn = "_pagerank" /\ "it" \in DOMAIN result /\ result.it >= 1
            /\ args.links = ScenarioLinks) =>
          RLe(RDiv(RSub(One, damping), Frac(4, 1)), result.pr_map[<<"D">>])
    /\ (fn = "metrics" /\ args.links = ScenarioLinks) =>
        /\ result.reciprocal_count[<<"A">>] = 1
        /\ result.reciprocal_count[<<"B">>] = 1
        /\ result.cross_follow_ratio[<<"A">>] = Frac(1, 2)
        /\ LinkOf(<<"A">>, <<"B">>).reciprocal = 1
        /\ RLt(LinkOf(<<"C">>, <<"D">>).weight, LinkOf(<<"A">>, <<"B">>).weight)
        /\ LinkOf(<<"C">>, <<"D">>).weight = Frac(2, 100)
        /\ RLe(RDiv(RSub(One, damping), Frac(4, 1)), result.pr_map[<<"D">>])
        /\ RLt(Zero, result.pr_map[<<"D">>])

\* the run on the four links in the order given has ended
C21_Witness ==
    /\ fn = "metrics" /\ args.links = ScenarioLinks
    /\ Len(result.weighted_links) = 4
    /\ LinkOf(<<"A">>, <<"B">>).weight = Frac(325, 1000)

\* a call of either PageRank is inside its loop "for _ in range(iterations)"
PagerankPending == fn \in {"_pagerank", "pagerank"} /\ ~result.done

\* the interpreter keeps running: a call that can be entered is entered, and a
\* loop that has a round left runs it. The second is weak fairness of the two
\* loop steps with the condition under which they can be taken written out
PagerankFairSpec ==
    /\ PagerankSpec
    /\ WF_vars(cqm_PagerankEnter \/ bl_PagerankEnter)
    /\ ([]<>~PagerankPending \/ []<><<cqm_PagerankIterate \/ bl_PagerankIterate>>_vars)

\* a call of either PageRank has returned
PagerankReturned == fn \in {"_pagerank", "pagerank"} /\ result.done

\* a call of either PageRank takes one round
PagerankRound ==
    /\ fn \in {"_pagerank", "pagerank"} /\ fn' = fn
    /\ result'.it = result.it + 1

\* C22: PageRank always returns, and it returns after exactly `iterations`
\* rounds: a round is run whenever fewer than `iterations` were, also when the
\* vector has stopped changing; the call returns the vector of its last round,
\* which for no round is the uniform start 1/n
C22_ExactRounds ==
    /\ <>PagerankReturned
    /\ [](PagerankReturned /\ Len(args.node_ids) > 0 => result.it = args.iterations)
    /\ [](fn \in {"_pagerank", "pagerank"} /\ result.it = 0 /\ Len(args.node_ids) > 0
            => result.pr = _pagerank_start(args.node_ids))
    /\ [][PagerankRound => ~result.done /\ result.it < args.iterations
            /\ result'.pr = IF fn = "_pagerank"
                            THEN _pagerank_iteration(args.node_ids, args.out_map, result.pr)
                            ELSE pagerank_iteration(args.node_ids, args.out_map, result.pr)]_vars
    /\ [][PagerankReturned => UNCHANGED vars]_vars

\* a round has left the vector as it was and further rounds are still to run
C22_Witness ==
    /\ fn = "_pagerank" /\ result.it >= 1 /\ ~result.done
    /\ result.pr = _pagerank_start(args.node_ids)
    /\ Len(args.node_ids) >= 2

---------------------------------------------------------------------------
(* Properties of one PageRank iteration.                                   *)

\* nxt at the start of an iteration: the base rank for every node
PagerankBaseVector(ids) == [nid \in Range(ids) |-> _pagerank_base(Len(ids))]

\* C23: within one iteration of _pagerank the vector nxt is the same for every
\* order in which the source nodes are processed: for the vector pr of any
\* round, the loop over the sources in any order ends with the nxt that the
\* loop in list order ends with.
C23_SourceOrderIrrelevant ==
    (fn = "_pagerank" /\ Len(args.node_ids) > 0) =>
        \A p \in Orders(Len(args.node_ids)) :
            _pagerank_sources(Reordered(args.node_ids, p), args.node_ids,
                              args.out_map, result.pr,
                              PagerankBaseVector(args.node_ids))
                = _pagerank_iteration(args.node_ids, args.out_map, result.pr)

\* a round over three nodes has made the ranks differ, and the list holds a
\* node with out-links and a node without
C23_Witness ==
    /\ fn = "_pagerank" /\ result.it >= 1 /\ Len(args.node_ids) >= 3
    /\ \E a \in Range(args.node_ids) : \E b \in Range(args.node_ids) :
          /\ result.pr[a] # result.pr[b]
          /\ args.out_map[a] # {} /\ args.out_map[b] = {}

---------------------------------------------------------------------------
(* Properties of the weighted degree.                                      *)

\* the sum of edge_weight over the pairs of the list that node k is part of
RECURSIVE EdgeWeightSum(_, _)
EdgeWeightSum(pairs, ks) ==
    IF pairs = <<>> THEN Zero
    ELSE LET s == Head(pairs)[1]
             t == Head(pairs)[2]
             rest == EdgeWeightSum(Tail(pairs), ks)
         IN  IF s \in ks \/ t \in ks
             THEN RAdd(cqm_EdgeWeight(s, t, out_map, in_map, token_map).edge_weight, rest)
             ELSE rest

\* the sum of a rational over the node list
RECURSIVE SumOverNodes(_, _)
SumOverNodes(ks, f) ==
    IF ks = {} THEN Zero
    ELSE LET k == CHOOSE x \in ks : TRUE
         IN  RAdd(f[k], SumOverNodes(ks \ {k}, f))

\* C24: after compute_quanzhong_metrics has processed all accepted edges, the
\* weighted_degree of each node is the sum of the edge weights of the weighted
\* links in which it is source or target; the total over all nodes is twice
\* the sum of all edge weights; a node with no accepted edge has 0; and
\* weighted_links holds one entry per accepted edge, in order.
C24_UndirectedAccumulation ==
    (Done /\ prog = "quanzhong") =>
        /\ DOMAIN weighted_degree = Range(node_ids)
        /\ \A k \in Range(node_ids) :
              /\ weighted_degree[k] = EdgeWeightSum(link_pairs, {k})
              /\ (\A i \in 1..Len(link_pairs) : k # link_pairs[i][1] /\ k # link_pairs[i][2])
                    => weighted_degree[k] = Zero
        /\ SumOverNodes(Range(node_ids), weighted_degree)
              = RMul(Frac(2, 1), EdgeWeightSum(link_pairs, Range(node_ids)))
        /\ Len(weighted_links) = Len(link_pairs)
        /\ \A i \in 1..Len(link_pairs) :
              /\ weighted_links[i].source = link_pairs[i][1]
              /\ weighted_links[i].target = link_pairs[i][2]
              /\ weighted_links[i].weight =
                    Round(cqm_EdgeWeight(link_pairs[i][1], link_pairs[i][2],
                                         out_map, in_map, token_map).edge_weight, 6)

\* a run has ended with a node that is the source of one accepted edge and the
\* target of another, and a node with no accepted edge
C24_Witness ==
    /\ Done /\ prog = "quanzhong"
    /\ \E i \in 1..Len(link_pairs) : \E j \in 1..Len(link_pairs) :
          i # j /\ link_pairs[i][1] = link_pairs[j][2]
    /\ \E k \in Range(node_ids) :
          \A i \in 1..Len(link_pairs) : k # link_pairs[i][1] /\ k # link_pairs[i][2]

---------------------------------------------------------------------------
(* Properties of the raw link weight.                                      *)

\* the link passes the tests of the link loop of build_layers
bl_Accepted(lk) ==
    /\ IsDict(lk)
    /\ ~bl_Rejects(bl_endpoint(FieldGet(lk.source)), bl_endpoint(FieldGet(lk.target)),
                   node_map)

\* the weight field of the link is a number above zero
ValidPositiveWeight(lk) ==
    /\ lk.weight.t # "missing"
    /\ Float(lk.weight)[1]
    /\ ~IsNaN(Float(lk.weight)[2])
    /\ RLt(Zero, Float(lk.weight)[2])

\* the weight field is missing, cannot be coerced to a number, or is zero or
\* negative
DefaultedWeight(lk) ==
    \/ lk.weight.t = "missing"
    \/ ~Float(lk.weight)[1]
    \/ (~IsNaN(Float(lk.weight)[2]) /\ RLe(Float(lk.weight)[2], Zero))

\* C25: in build_layers the raw link weight used for the weighted degree is
\* always strictly positive: a weight that is missing, cannot be coerced to a
\* number, or is zero or negative is replaced by 1.0, a valid positive weight
\* is used unchanged, and each accepted link adds that weight to both of its
\* endpoints.
C25_PositiveLinkWeight ==
    [][\A lk \in bl_LinkPool :
          (bl_LinkLoop(lk) /\ bl_Accepted(lk)) =>
              LET w == bl_LinkWeight(lk)
                  s == bl_endpoint(FieldGet(lk.source))
                  t == bl_endpoint(FieldGet(lk.target))
              IN  /\ ~IsNaN(w) /\ RLt(Zero, w)
                  /\ DefaultedWeight(lk) => w = One
                  /\ ValidPositiveWeight(lk) => w = Float(lk.weight)[2]
                  /\ weighted_degree'[s] = FAdd(weighted_degree[s], w)
                  /\ weighted_degree'[t] = FAdd(weighted_degree[t], w)
                  /\ \A k \in DOMAIN weighted_degree \ {s, t} :
                        weighted_degree'[k] = weighted_degree[k]]_vars

---------------------------------------------------------------------------
(* Properties of the grey relational coefficient.                          *)

\* distinguishing coefficients above zero: the default, a small and a large one
RhoValues == {Frac(1, 2), Frac(1, 100), Frac(3, 1)}

\* abs(1.0 - x)
Delta(x) == IF RLt(One, x) THEN RSub(x, One) ELSE RSub(One, x)

\* C26: for rho = 0.5 and a non-empty input every grey relational coefficient
\* lies in [rho / (1 + rho), 1] = [1/3, 1], so every grey relation score lies
\* in [1/3, 1] and every composite score 0.75 * grey_relation + 0.25 *
\* normalised weighted degree lies in [0.25, 1]; and for every rho > 0 the
\* denominator of the coefficient is above zero (and the coefficient lies in
\* [rho / (1 + rho), 1]). The reported scores are the scores rounded to 6
\* decimals and lie between the rounded ends of the ranges.
C26_GreyBounds ==
    fn = "grey_relation" =>
        LET n == Len(result.grey_relation)
            deltas == cqm_Deltas(result.ind_norm, 1)
            delta_min == cqm_DeltaMin(deltas)
            delta_max == cqm_DeltaMax(deltas)
            wd_norm == _minmax(args.ind_raw["weighted_degree"])
        IN  /\ args.rho = Frac(1, 2)
            /\ \A i \in 1..n :
                  /\ \A name \in Range(ind_names) : \A rho \in RhoValues :
                        LET x == result.ind_norm[name][i]
                            gamma == cqm_Gamma(x, delta_min, delta_max, rho)
                        IN  /\ RLt(Zero, RAdd(Delta(x), RMul(rho, delta_max)))
                            /\ RLe(RDiv(rho, RAdd(One, rho)), gamma)
                            /\ RLe(gamma, One)
                  /\ RLe(Frac(1, 3), result.grey_relation[i])
                  /\ RLe(result.grey_relation[i], One)
                  /\ RLe(Frac(1, 4), cqm_FinalScore(result.grey_relation[i], wd_norm[i]))
                  /\ RLe(cqm_FinalScore(result.grey_relation[i], wd_norm[i]), One)
                  /\ RLe(Round(Frac(1, 3), 6), result.node_metrics[i].grey_relation)
                  /\ RLe(result.node_metrics[i].grey_relation, One)
                  /\ RLe(Frac(1, 4), result.node_metrics[i].quanzhong_score)
                  /\ RLe(result.node_metrics[i].quanzhong_score, One)

\* MaxNodes nodes of which one is at the lower end of both ranges and one at
\* the upper end
C26_Witness ==
    /\ fn = "grey_relation"
    /\ Len(result.grey_relation) = MaxNodes
    /\ \E i \in 1..MaxNodes :
          /\ result.grey_relation[i] = Frac(1, 3)
          /\ result.node_metrics[i].grey_relation = Round(Frac(1, 3), 6)
          /\ result.node_metrics[i].quanzhong_score = Frac(1, 4)
    /\ \E i \in 1..MaxNodes :
          /\ result.grey_relation[i] = One
          /\ result.node_metrics[i].quanzhong_score = One

---------------------------------------------------------------------------
(* Properties of rank and layer.                                           *)

\* C27: the layer assignment of build_layers is monotone in the score: for
\* any two rows a and b, influence_score(a) >= influence_score(b) implies
\* layer_index(a) <= layer_index(b); rows of equal score share a layer; and
\* the top-ranked row of every non-empty population is in layer "core".
C27_LayerMonotone ==
    fn = "build_layers" =>
        /\ \A a \in 1..Len(result) : \A b \in 1..Len(result) :
              /\ FLe(result[b].influence_score, result[a].influence_score)
                    => result[a].layer_index <= result[b].layer_index
              /\ FEq(result[a].influence_score, result[b].influence_score)
                    => result[a].layer = result[b].layer
        /\ \A a \in 1..Len(result) : result[a].rank = 1 => result[a].layer = "core"

\* C28: the n output rows of build_layers carry the ranks 1..n, each exactly
\* once, they are the input rows, and a row with a smaller rank never has a
\* strictly lower score than a row with a larger rank.
C28_DenseRanks ==
    fn = "build_layers" =>
        /\ Len(result) = Len(args)
        /\ \A k \in 1..Len(args) :
              Cardinality({a \in 1..Len(result) : result[a].rank = k}) = 1
        /\ \A a \in 1..Len(result) : result[a].rank \in 1..Len(args)
        /\ \A i \in 1..Len(args) :
              \E a \in 1..Len(result) :
                  /\ result[a].id = args[i].id
                  /\ result[a].influence_score = args[i].influence_score
        /\ \A a \in 1..Len(result) : \A b \in 1..Len(result) :
              result[a].rank < result[b].rank
                  => ~FLt(result[a].influence_score, result[b].influence_score)

---------------------------------------------------------------------------
(* Properties of a call as a whole.                                        *)

---------------------------------------------------------------------------
(* Properties of safe_api_get().                                           *)

\* the call has returned or raised
sag_Finished == fn = "safe_api_get" /\ result.status \in {"returned", "raised"}

\* C30: safe_api_get always terminates, after at most `retries` HTTP
\* attempts; it returns the payload of the first successful attempt and makes
\* no request after it; a 429 is never re-raised and uses up one attempt; a
\* failure other than 429 is re-raised only on the last attempt; and a call
\* whose attempts all end in 429 ends with RuntimeError.
C30_BoundedRetries ==
    /\ <>sag_Finished
    /\ [](fn = "safe_api_get" =>
            /\ Len(result.log) <= args.retries
            /\ result.i <= args.retries
            /\ result.raised # "429"
            /\ result.status = "returned" =>
                  /\ result.returned = Len(result.log)
                  /\ result.log[Len(result.log)] = "ok"
                  /\ \A k \in 1..(Len(result.log) - 1) : result.log[k] # "ok"
            /\ result.raised \in {"http_error", "error"} =>
                  /\ Len(result.log) = args.retries
                  /\ result.log[Len(result.log)] = result.raised
            /\ (sag_Finished /\ \A k \in 1..Len(result.log) : result.log[k] = "429") =>
                  result.raised = "RuntimeError" /\ Len(result.log) = args.retries)
    /\ [][fn = "safe_api_get" =>
            /\ Len(result'.log) <= Len(result.log) + 1
            /\ result.status = "sleep" => result'.log = result.log
            /\ (Len(result'.log) = Len(result.log) + 1
                    /\ result'.log[Len(result'.log)] = "429") =>
                  result'.i = result.i /\ result'.status = "sleep"]_vars
    /\ [][sag_Finished => UNCHANGED vars]_vars

\* a call with four attempts has ended with RuntimeError: a failure that was
\* not re-raised, then 429 up to the last attempt
C30_Witness ==
    /\ sag_Finished /\ args.retries = MaxRetries
    /\ result.raised = "RuntimeError"
    /\ result.log[1] = "error"
    /\ \A k \in 2..MaxRetries : result.log[k] = "429"

====
